---- MODULE Spec2Model ----
(***************************************************************************)
(* Model of the tracking service (api/src/index.ts, the served tracker     *)
(* script) of hrl-tracking-app.                                            *)
(*                                                                         *)
(* The subsystems share the module and the variables; each has its own     *)
(* specification:                                                          *)
(*   SpecIngest   - POST /collect and POST /app-proxy/collect against the  *)
(*                  durable store (shops, sessions, events, page_views);   *)
(*   SpecPresence - POST /presence/beat and GET /app-proxy/presence        *)
(*                  against the sorted set presence:<shop>;                *)
(*   SpecPoll     - conditional polls of GET /app-proxy/presence (ETag);   *)
(*   SpecStream   - GET /presence/stream, the server-sent event stream;    *)
(*   SpecFault    - the endpoints while a store is missing or failing;     *)
(*   SpecLeader   - the leader-tab lease of the tracker script in          *)
(*                  localStorage;                                          *)
(*   SpecActivity - activity detection and the presence heartbeat of the   *)
(*                  tracker script;                                        *)
(*   SpecSession  - the tracker's session and its rotation;                *)
(*   SpecMeta     - the network metadata of a sessions row;                *)
(*   SpecParity   - the stream and the poll side by side;                  *)
(*   SpecRace     - two tabs whose loads interleave on the lease;          *)
(*   SpecRenew    - the renewal of the lease by inactive tabs;             *)
(*   SpecSend     - the events the tracker script sends and their          *)
(*                  delivery;                                              *)
(*   SpecFrame    - events, beats and cleanups of one shop side by side;   *)
(*   SpecTtl      - beats of one shop that nobody reads, over more than    *)
(*                  the time-to-live of its key;                           *)
(*   SpecShops    - events of one session id under two shop domains;       *)
(*   SpecAgain    - one page view delivered several times;                 *)
(*   SpecStop     - the presence stream until it is stopped, by its        *)
(*                  subscriber or by a failing store;                      *)
(*   SpecIdle     - two tabs of which the leader falls idle while the      *)
(*                  other is in use.                                       *)
(* Every await of a handler is one atomic step of the store; the steps of  *)
(* different requests interleave freely.                                   *)
(***************************************************************************)
EXTENDS Integers, Sequences, FiniteSets, TLC

(***************************************************************************)
(* Values                                                                  *)
(***************************************************************************)
\* JavaScript null / undefined for string-valued fields.
NULL == "<null>"

\* Optional numbers and optional character sequences: <<>> or <<v>>.
None == << >>
Some(v) == << v >>

\* JavaScript truthiness of an optional string: x || null.
Falsy(s) == s = NULL \/ s = ""
OrNull(s) == IF Falsy(s) THEN NULL ELSE s

Abs(x) == IF x < 0 THEN 0 - x ELSE x

\* Math.floor(ms / 1000) for ms >= 0.
FloorSec(ms) == ms \div 1000

(***************************************************************************)
(* Bounds of the model                                                     *)
(***************************************************************************)
\* Request handlers that can be in flight at once.
MaxInFlight == 2
\* Ingestion requests received in one behaviour of SpecIngest.
MaxRequests == 3
\* Ingestion requests received in one behaviour of SpecIngestEdge.
MaxEdgeRequests == 2
\* Deliveries of the one page view in one behaviour of SpecAgain.
MaxDeliveries == 4
\* Ingestion requests received in one behaviour of SpecShops.
MaxShopRequests == 3
\* Ingestion requests received in one behaviour of SpecMeta.
MaxMetaRequests == 3
\* Clock steps taken in one behaviour of the ingestion specification.
MaxIngestTicks == 1
\* Beat requests, presence reads and clock steps in one behaviour of
\* SpecPresence.
MaxBeats == 2
MaxReads == 2
MaxPresenceTicks == 3
\* Clock steps in one behaviour of SpecLeader.
MaxLeaderTicks == 10
\* Ingestion requests received in one behaviour of SpecFrame.
MaxFrameEvents == 2
\* Clock steps (1 s) in one behaviour of SpecFrame.
MaxFrameTicks == 1
\* Clock steps in one behaviour of SpecTtl.
MaxTtlTicks == 3
\* Requests of all kinds received in one behaviour of SpecFault.
MaxFaultRequests == 2
\* Clock steps (half periods of the interval) in one behaviour of SpecStream.
MaxStreamTicks == 5
\* Clock steps (5 s) in one behaviour of SpecActivity: past the four minutes.
MaxActivityTicks == 50
\* Activity, focus, visibility and navigation events in one behaviour of
\* SpecActivity.
MaxSignals == 2
\* Beats and polls received, and clock steps (1 s), in one behaviour of
\* SpecParity.
MaxParityRequests == 2
MaxParityTicks == 3
\* Clock steps (5 s) in one behaviour of SpecRace.
MaxRaceTicks == 3
\* Clock steps (5 s) in one behaviour of SpecIdle: past the four minutes.
MaxIdleTicks == 50
\* The last clock step of SpecIdle at which a tab is opened, and the activity
\* events in one behaviour of SpecIdle.
MaxIdleOpenTick == 1
MaxIdleSignals == 1
\* Clock steps (5 s) in one behaviour of SpecRenew: past the four minutes.
MaxRenewTicks == 50
\* Clock steps and page loads in one behaviour of SpecSession.
MaxSessionTicks == 4
MaxLoads == 3
\* Clock steps in one behaviour of SpecSend.
MaxSendTicks == 3

(***************************************************************************)
(* Program constants                                                       *)
(***************************************************************************)
\* 5 * 60 * 1000: the accepted deviation of a client ts from server time.
SKEW_TOLERANCE_MS == 5 * 60 * 1000

\* The server's clock when the model starts (ms since the epoch).
StartMs == 10 * 60 * 1000
\* One step of the ingestion clock: the five minutes of scenario C.
IngestTickMs == 5 * 60 * 1000

\* The window of the presence count, in seconds.
ACTIVE_WINDOW_SEC == 30
\* The time-to-live every beat sets on the shop's presence key, in seconds.
PRESENCE_TTL_SEC == 300

\* process.env.TRACKING_KEY
TRACKING_KEY == "k1"

\* Status of the reply Fastify's default error handler sends for an error
\* thrown out of a handler that carries no statusCode (ZodError, SyntaxError).
\* The server registers no error handler of its own.
UNCAUGHT_STATUS == 500

LowerChars == {"a","b","c","d","e","f","g","h","i","j","k","l","m",
               "n","o","p","q","r","s","t","u","v","w","x","y","z"}
UpperChars == {"A","B","C","D","E","F","G","H","I","J","K","L","M",
               "N","O","P","Q","R","S","T","U","V","W","X","Y","Z"}
DigitChars == {"0","1","2","3","4","5","6","7","8","9"}

\* /^[a-z0-9.-]{3,255}$/i on a domain given as its sequence of characters.
SHOP_RE(d) ==
    /\ Len(d) >= 3
    /\ Len(d) <= 255
    /\ \A i \in 1..Len(d) : d[i] \in LowerChars \cup UpperChars \cup DigitChars \cup {".", "-"}

(***************************************************************************)
(* State                                                                   *)
(***************************************************************************)
VARIABLES
    nowMs,        \* Date.now() of the server
    ticks,        \* clock steps taken so far
    supabase,     \* TRUE iff the Supabase client is configured
    shops,        \* table shops: sequence of rows [id, domain]
    sessions,     \* table sessions: sequence of rows
    events,       \* table events: sequence of rows
    page_views,   \* table page_views: sequence of rows
    slot,         \* the ingestion request handlers: slot -> handler state
    received,     \* ingestion requests received so far
    redis,        \* TRUE iff the Redis client is configured
    zset,         \* the sorted sets presence:<shop>: set of [key, member, score]
    ttl,          \* expire time of each presence key (s), 0 when none is set
    pslot,        \* the presence request handlers: slot -> handler state
    lastBeat,     \* history: score of the last ZADD executed per (key, member)
    beats,        \* beat requests received so far
    reads,        \* presence reads received so far
    tab,          \* the tabs of one browser: tab -> script state
    localStorage, \* the lease keys shared by the tabs of one site
    lastChurn,    \* history: time a tab was last opened or closed
    signals,      \* number of user events delivered to the tabs
    fault,        \* how each store answers: operation -> "ok", "error", "throws"
    stream,       \* the subscription of GET /presence/stream
    visit         \* the tracker's session: web storage and the script's SESSION

ingestVars == << supabase, shops, sessions, events, page_views, slot, received >>

presenceVars == << redis, zset, ttl, pslot, lastBeat, beats, reads >>

agentVars == << tab, localStorage, lastChurn, signals >>

vars == << nowMs, ticks, ingestVars, presenceVars, agentVars, fault, stream, visit >>

Slots == 1..MaxInFlight

\* The store operations that can fail: the four tables of the durable store
\* and the presence store. A Supabase call that fails resolves to {error}
\* ("error") or rejects ("throws"); a Redis command that fails rejects.
FaultOps == { "shops", "sessions", "events", "page_views", "redis" }

DurableOps == { "shops", "sessions", "events", "page_views" }

\* Every store answers.
NoFault == [o \in FaultOps |-> "ok"]

(***************************************************************************)
(* Inputs of the ingestion endpoints                                       *)
(***************************************************************************)
ShopA == << "a", ".", "i", "o" >>          \* "a.io"
ShopUpper == << "B", "-", "2" >>           \* "B-2": the pattern ignores case
ShopShort == << "a", "b" >>                \* "ab": shorter than 3
ShopBadChar == << "a", " ", "b", "!" >>    \* "a b!": characters outside the class
ShopLong == [i \in 1..256 |-> "a"]         \* 256 characters

\* req.ip: the peer address Fastify reports when no proxy header is present.
REQ_IP == "10.0.0.9"

\* A well-formed body: every required field present.
GoodBody(ev, ts, eid) ==
    [event |-> ev, ts |-> ts, session_id |-> "s1", visitor_id |-> "v1",
     shop_domain |-> Some(ShopA), page_path |-> "/p", ref |-> NULL, event_id |-> eid]

\* Client timestamps around the server's clock: absent, equal, on and just
\* beyond the tolerance in both directions, and one hour ahead (scenario D).
TsChoices(now) ==
    { None, Some(now),
      Some(now - SKEW_TOLERANCE_MS), Some(now - SKEW_TOLERANCE_MS - 1),
      Some(now + SKEW_TOLERANCE_MS), Some(now + SKEW_TOLERANCE_MS + 1),
      Some(now + 60 * 60 * 1000) }

\* Bodies that differ in event name, event_id and ts.
CoreBodies(now) ==
    { GoodBody(ev, ts, eid) :
        ev \in {"page_view", "purchase"},
        ts \in {None, Some(now - SKEW_TOLERANCE_MS)},
        eid \in {NULL, "e1"} }

\* Bodies that differ in ts only.
SkewBodies(now) == { GoodBody("page_view", ts, "e1") : ts \in TsChoices(now) }

\* Bodies with a missing or out-of-bounds field, or a bad shop domain.
BadBodies(now) ==
    { [GoodBody("purchase", None, "e1") EXCEPT !.event = NULL],
      [GoodBody("purchase", None, "e1") EXCEPT !.session_id = NULL],
      [GoodBody("purchase", None, "e1") EXCEPT !.session_id = ""],
      [GoodBody("purchase", None, "e1") EXCEPT !.ts = Some(0)],
      [GoodBody("purchase", None, "e1") EXCEPT !.shop_domain = None] }
    \cup { [GoodBody("purchase", None, "e1") EXCEPT !.shop_domain = Some(d)] :
             d \in {ShopShort, ShopBadChar, ShopLong, ShopUpper} }

\* A request: the endpoint, the x-tracking-key header, whether the raw body
\* parses as JSON, the parsed body, and the headers the handler reads.
Req(p, k, ok, b) ==
    [path |-> p, key |-> k, rawOk |-> ok, body |-> b, ua |-> "UA", xff |-> NULL]

Paths == {"collect", "proxy"}

\* The requests of SpecIngest: well-formed events of one session of one shop.
CoreRequests(now) == { Req(p, NULL, TRUE, b) : p \in Paths, b \in CoreBodies(now) }

\* The requests of SpecIngestEdge: timestamps around the tolerance, refused
\* bodies, unparsable bodies and the x-tracking-key header.
EdgeRequests(now) ==
    { Req(p, NULL, TRUE, b) : p \in Paths, b \in SkewBodies(now) \cup BadBodies(now) }
    \cup { Req(p, NULL, FALSE, GoodBody("purchase", None, "e1")) : p \in Paths }
    \cup { Req("proxy", k, TRUE, GoodBody("purchase", None, "e1")) : k \in {"k1", "wrong"} }

\* The requests of SpecAgain: one page view with an event_id, on either
\* endpoint.
AgainRequests == { Req(p, NULL, TRUE, GoodBody("page_view", None, "e1")) : p \in Paths }

\* The requests of SpecShops: events of session s1 sent under two shop
\* domains.
ShopRequests ==
    { Req(p, NULL, TRUE, [GoodBody("page_view", None, eid) EXCEPT !.shop_domain = Some(d)]) :
        p \in Paths, eid \in {NULL, "e1"}, d \in {ShopA, ShopUpper} }

\* The requests of SpecMeta: events of one session that differ in what they
\* carry as referrer (page.ref absent, the empty document.referrer, two
\* addresses), as user-agent header and as x-forwarded-for header.
MetaRequests ==
    { [Req(p, NULL, TRUE, [GoodBody("page_view", None, NULL) EXCEPT !.ref = ref])
          EXCEPT !.ua = ua, !.xff = xff] :
        p \in Paths, ref \in {NULL, "", "https://g.example/", "https://a.io/p"},
        ua \in {NULL, "UA"}, xff \in {NULL, "203.0.113.7"} }

(***************************************************************************)
(* Validation and timestamp                                                *)
(***************************************************************************)
\* The zod schema of POST /collect: event, session_id and shop_domain are
\* strings, ts an optional number.
CollectSchemaOk(b) ==
    /\ b.event # NULL
    /\ b.session_id # NULL
    /\ b.shop_domain # None

\* The zod schema of POST /app-proxy/collect: the same fields with bounds.
\* (The upper length bounds are not exercised: every string input is short.)
ProxySchemaOk(b) ==
    /\ b.event # NULL /\ b.event # ""
    /\ b.session_id # NULL /\ b.session_id # ""
    /\ b.visitor_id # ""
    /\ b.shop_domain # None /\ Len(b.shop_domain[1]) >= 1 /\ Len(b.shop_domain[1]) <= 255
    /\ (b.ts # None => b.ts[1] > 0)

\* x-tracking-key present and not equal to the configured key.
KeyRejected(key) == key # NULL /\ (TRACKING_KEY = NULL \/ key # TRACKING_KEY)

\* Mutant of tsMsOf: the tolerance is exclusive.
tsMsOf_Strict(now, ts) ==
    IF ts # None /\ Abs(now - ts[1]) < SKEW_TOLERANCE_MS THEN ts[1] ELSE now

\* tsMs: the client's ts within +/- 5 minutes of the server, else server time.
tsMsOf(now, ts) ==
    IF ts # None /\ Abs(now - ts[1]) <= SKEW_TOLERANCE_MS THEN ts[1] ELSE now

\* (x-forwarded-for || '').split(',')[0] || req.ip || null
IpOf(xff) == IF Falsy(xff) THEN REQ_IP ELSE xff

(***************************************************************************)
(* The durable store                                                       *)
(***************************************************************************)
Rows(tbl, P(_)) == { i \in 1..Len(tbl) : P(tbl[i]) }

HasShop(tbl, d) == \E i \in 1..Len(tbl) : tbl[i].domain = d
ShopIdOf(tbl, d) == tbl[CHOOSE i \in 1..Len(tbl) : tbl[i].domain = d].id

\* Mutant of UpsertShop: a plain insert.
UpsertShop_Insert(tbl, d) == Append(tbl, [id |-> Len(tbl) + 1, domain |-> d])

\* shops.upsert({domain}, {onConflict: 'domain'}): one row per domain; a new
\* row gets a fresh id.
UpsertShop(tbl, d) ==
    IF HasShop(tbl, d) THEN tbl ELSE Append(tbl, [id |-> Len(tbl) + 1, domain |-> d])

HasSession(tbl, id) == \E i \in 1..Len(tbl) : tbl[i].id = id

\* Mutant of UpdateSession: the update writes first_seen as well.
UpdateSession_FirstSeen(tbl, id, ts, ip, ua, ref) ==
    [i \in 1..Len(tbl) |->
        IF tbl[i].id = id
        THEN [tbl[i] EXCEPT !.first_seen = ts, !.last_seen = ts,
                            !.ip = ip, !.ua = ua, !.referrer = ref]
        ELSE tbl[i]]

\* Mutant of UpdateSession: last_seen only moves forward.
UpdateSession_Greatest(tbl, id, ts, ip, ua, ref) ==
    [i \in 1..Len(tbl) |->
        IF tbl[i].id = id
        THEN [tbl[i] EXCEPT !.last_seen = IF ts > @ THEN ts ELSE @,
                            !.ip = ip, !.ua = ua, !.referrer = ref]
        ELSE tbl[i]]

\* sessions.update({last_seen, ip, ua, referrer}).eq('id', id)
UpdateSession(tbl, id, ts, ip, ua, ref) ==
    [i \in 1..Len(tbl) |->
        IF tbl[i].id = id
        THEN [tbl[i] EXCEPT !.last_seen = ts, !.ip = ip, !.ua = ua, !.referrer = ref]
        ELSE tbl[i]]

\* sessions.update({last_seen}).eq('id', id)
TouchSession(tbl, id, ts) ==
    [i \in 1..Len(tbl) |->
        IF tbl[i].id = id THEN [tbl[i] EXCEPT !.last_seen = ts] ELSE tbl[i]]

\* Mutant of SessionInsertFails: no primary key on sessions.id.
SessionInsertFails_NoKey(tbl, id) == FALSE

\* sessions.id is the primary key: an insert of a stored id is refused.
SessionInsertFails(tbl, id) == HasSession(tbl, id)

HasEvent(tbl, sid, eid) ==
    \E i \in 1..Len(tbl) : tbl[i].shop_id = sid /\ tbl[i].event_id = eid

\* Mutant of UpsertEvent: a plain insert.
UpsertEvent_Insert(tbl, row) == Append(tbl, row)

\* events.upsert(row, {onConflict: 'shop_id,event_id'}) over the unique index
\* events_shop_event_id_uniq: the stored row of that key takes the new values.
UpsertEvent(tbl, row) ==
    IF HasEvent(tbl, row.shop_id, row.event_id)
    THEN [i \in 1..Len(tbl) |->
            IF tbl[i].shop_id = row.shop_id /\ tbl[i].event_id = row.event_id
            THEN row ELSE tbl[i]]
    ELSE Append(tbl, row)

\* Mutant of InsertEvent: a row equal to a stored one is dropped.
InsertEvent_Dedup(tbl, row) ==
    IF \E i \in 1..Len(tbl) : tbl[i] = row THEN tbl ELSE Append(tbl, row)

\* events.insert(row): the event carries no event_id.
InsertEvent(tbl, row) == Append(tbl, row)

\* Mutant of AfterEvent: the page view is written for every event.
AfterEvent_Always(ev) == "pageView"

\* if (body.event === 'page_view'): the page view insert follows the event
\* write for that event name only; otherwise the handler replies.
AfterEvent(ev) == IF ev = "page_view" THEN "pageView" ELSE "done"

(***************************************************************************)
(* The presence store: one sorted set per shop, member = session id,       *)
(* score = time of the beat in seconds                                     *)
(***************************************************************************)
\* Session ids of the beat requests; the first two are UUIDs.
U1 == "11111111-1111-4111-8111-111111111111"
U2 == "22222222-2222-4222-8222-222222222222"
NotUuid == "sess_1"

\* z.string().uuid(), on the session ids the model sends.
IsUuid(x) == x \in {U1, U2}

\* The shops whose key presence:<shop> can come to exist.
PresenceKeys == {ShopA}
Members == {U1, U2}

\* Mutant of ZAdd: the member's old entry is kept.
ZAdd_Keep(z, key, member, score) ==
    z \cup {[key |-> key, member |-> member, score |-> score]}

\* ZADD key score member: the member's entry is created or its score replaced.
ZAdd(z, key, member, score) ==
    { e \in z : ~(e.key = key /\ e.member = member) }
      \cup {[key |-> key, member |-> member, score |-> score]}

\* Mutant of ZRemRangeByScore: the upper end of the range is excluded.
ZRemRangeByScore_Open(z, key, min, max) ==
    { e \in z : ~(e.key = key /\ e.score >= min /\ e.score < max) }

\* ZREMRANGEBYSCORE key min max: both ends inclusive.
ZRemRangeByScore(z, key, min, max) ==
    { e \in z : ~(e.key = key /\ e.score >= min /\ e.score <= max) }

\* ZCOUNT key min +inf
ZCount(z, key, min) == Cardinality({ e \in z : e.key = key /\ e.score >= min })

KeyExists(z, key) == \E e \in z : e.key = key

\* A key that lost its last member is deleted, and its time-to-live with it.
TtlAfter(t, z) == [k \in PresenceKeys |-> IF KeyExists(z, k) THEN t[k] ELSE 0]

\* The keys whose time-to-live has run out at second sec are deleted.
Expired(z, t, sec) == { e \in z : ~(t[e.key] > 0 /\ t[e.key] <= sec) }

\* A presence handler that holds no request.
IdlePSlot ==
    [pc |-> "idle", kind |-> NULL, reject |-> NULL, status |-> 0, note |-> NULL,
     key |-> None, member |-> NULL, sec |-> 0, current |-> 0,
     inm |-> None, etag |-> None, header |-> None, body |-> None, ts |-> 0,
     error |-> NULL, errs |-> {}, cts |-> None]

\* Mutant of etagPayload: the fingerprint covers the whole payload, ts included.
etagPayload_Ts(payload) == payload

\* const etagPayload = { current, display: current }
etagPayload(payload) == [current |-> payload.current, display |-> payload.display]

\* 'W/"' + sha1(JSON.stringify(etagPayload)) + '"': the weak validator of the
\* serialized record; SHA-1 is taken to be free of collisions, so two
\* validators are equal exactly when the serialized records are.
ETagOf(p) == << "W/", "sha1", p >>

\* An If-None-Match value no reply of this server carried.
ForeignETag == << "W/", "sha1", [foreign |-> TRUE] >>

\* The reply of GET /app-proxy/presence once current is known, at time now:
\* 304 without a body if If-None-Match equals the validator, otherwise the
\* payload with the validator in the ETag header.
PresenceReply(h, current, now) ==
    LET payload == [current |-> current, display |-> current, ts |-> now]
        etag == ETagOf(etagPayload(payload))
        seen == [h EXCEPT !.pc = "done", !.current = current, !.ts = now, !.etag = etag]
    IN IF h.inm # None /\ h.inm = etag
       THEN [seen EXCEPT !.status = 304]
       ELSE [seen EXCEPT !.status = 200, !.header = etag, !.body = Some(payload)]

\* Bodies of POST /presence/beat: {shop, session_id, ts?}.
BeatBodies(now) ==
    { [shop |-> Some(ShopA), session_id |-> m, ts |-> t] :
        m \in Members, t \in {None, Some(now + 60 * 60 * 1000), Some(now - 60 * 1000)} }
    \cup { [shop |-> Some(ShopA), session_id |-> NotUuid, ts |-> None],
           [shop |-> Some(ShopA), session_id |-> NULL, ts |-> None],
           [shop |-> Some(ShopA), session_id |-> U1, ts |-> Some(0)],
           [shop |-> None, session_id |-> U1, ts |-> None],
           [shop |-> Some(ShopShort), session_id |-> U1, ts |-> None],
           [shop |-> Some(ShopBadChar), session_id |-> U1, ts |-> None] }

\* The shop query parameter of GET /app-proxy/presence.
ReadShops == { Some(ShopA), None, Some(<< >>), Some(ShopBadChar) }

\* The zod schema of POST /presence/beat.
BeatSchemaOk(b) ==
    /\ b.shop # None /\ Len(b.shop[1]) >= 1 /\ Len(b.shop[1]) <= 255
    /\ b.session_id # NULL /\ IsUuid(b.session_id)
    /\ (b.ts # None => b.ts[1] > 0)

BeatRejectOf(b) ==
    IF ~BeatSchemaOk(b) THEN "parse"
    ELSE IF ~SHOP_RE(b.shop[1]) THEN "shop"
    ELSE "none"

\* Mutant of ReceiveBeat: the score is the ts of the body when it has one.
ReceiveBeat_ClientTs(r, b) ==
    /\ pslot[r].pc \in {"idle", "done"}
    /\ beats < MaxBeats
    /\ beats' = beats + 1
    /\ LET rej == BeatRejectOf(b)
           base == [IdlePSlot EXCEPT !.kind = "beat", !.reject = rej]
       IN IF rej = "parse"
          THEN pslot' = [pslot EXCEPT ![r] =
                   [base EXCEPT !.pc = "done", !.status = UNCAUGHT_STATUS]]
          ELSE IF rej = "shop"
          THEN pslot' = [pslot EXCEPT ![r] = [base EXCEPT !.pc = "done", !.status = 400]]
          ELSE IF ~redis
          THEN pslot' = [pslot EXCEPT ![r] =
                   [base EXCEPT !.pc = "done", !.status = 200, !.note = "no_redis_dev"]]
          ELSE pslot' = [pslot EXCEPT ![r] =
                   [base EXCEPT !.pc = "zadd", !.key = b.shop, !.member = b.session_id,
                                !.sec = IF b.ts # None THEN FloorSec(b.ts[1]) ELSE FloorSec(nowMs),
                                !.cts = b.ts]]
    /\ UNCHANGED << nowMs, ticks, ingestVars, redis, zset, ttl, lastBeat, reads, agentVars, fault, stream, visit >>

\* POST /presence/beat up to its first await: validation, then either a
\* reply or ZADD in flight with the server's clock as the score. cts
\* records the ts of the body, which the handler does not read.
ReceiveBeat(r, b) ==
    /\ pslot[r].pc \in {"idle", "done"}
    /\ beats < MaxBeats
    /\ beats' = beats + 1
    /\ LET rej == BeatRejectOf(b)
           base == [IdlePSlot EXCEPT !.kind = "beat", !.reject = rej]
       IN IF rej = "parse"
          THEN pslot' = [pslot EXCEPT ![r] =
                   [base EXCEPT !.pc = "done", !.status = UNCAUGHT_STATUS]]
          ELSE IF rej = "shop"
          THEN pslot' = [pslot EXCEPT ![r] = [base EXCEPT !.pc = "done", !.status = 400]]
          ELSE IF ~redis
          THEN pslot' = [pslot EXCEPT ![r] =
                   [base EXCEPT !.pc = "done", !.status = 200, !.note = "no_redis_dev"]]
          ELSE pslot' = [pslot EXCEPT ![r] =
                   [base EXCEPT !.pc = "zadd", !.key = b.shop, !.member = b.session_id,
                                !.sec = FloorSec(nowMs), !.cts = b.ts]]
    /\ UNCHANGED << nowMs, ticks, ingestVars, redis, zset, ttl, lastBeat, reads, agentVars, fault, stream, visit >>

\* A command of the presence store rejected in POST /presence/beat, which
\* has no try/catch: the framework answers for the handler.
Uncaught(h) ==
    [h EXCEPT !.pc = "done", !.status = UNCAUGHT_STATUS, !.errs = @ \cup {"redis"}]

\* catch (err) { return reply.code(500).send({ok: false, error: 'internal_error'}) }
InternalError(h) ==
    [h EXCEPT !.pc = "done", !.status = 500, !.error = "internal_error",
              !.errs = @ \cup {"redis"}]

\* await redis.zadd(key, serverNowSec, session_id)
BeatZAdd(r) ==
    /\ pslot[r].pc = "zadd"
    /\ IF fault["redis"] = "throws"
       THEN /\ UNCHANGED << zset, lastBeat >>
            /\ pslot' = [pslot EXCEPT ![r] = Uncaught(pslot[r])]
       ELSE /\ zset' = ZAdd(zset, pslot[r].key[1], pslot[r].member, pslot[r].sec)
            /\ lastBeat' = [lastBeat EXCEPT ![pslot[r].key[1]][pslot[r].member] = pslot[r].sec]
            /\ pslot' = [pslot EXCEPT ![r].pc = "expire"]
    /\ UNCHANGED << nowMs, ticks, ingestVars, redis, ttl, beats, reads, agentVars, fault, stream, visit >>

\* await redis.expire(key, 300); reply ok.
BeatExpire(r) ==
    /\ pslot[r].pc = "expire"
    /\ IF fault["redis"] = "throws"
       THEN /\ ttl' = ttl
            /\ pslot' = [pslot EXCEPT ![r] = Uncaught(pslot[r])]
       ELSE /\ ttl' = [ttl EXCEPT ![pslot[r].key[1]] =
                          IF KeyExists(zset, pslot[r].key[1])
                          THEN FloorSec(nowMs) + PRESENCE_TTL_SEC ELSE @]
            /\ pslot' = [pslot EXCEPT ![r].pc = "done", ![r].status = 200]
    /\ UNCHANGED << nowMs, ticks, ingestVars, redis, zset, lastBeat, beats, reads, agentVars, fault, stream, visit >>

\* The If-None-Match values a poller can send: none, a validator an earlier
\* reply carried or confirmed, or a foreign one.
InmChoices ==
    { None, ForeignETag } \cup { pslot[q].etag : q \in Slots }

\* GET /app-proxy/presence up to its first await: the shop parameter is
\* checked, the clock is read, and either a reply or the eviction in flight.
ReceiveRead(r, shop, inm) ==
    /\ pslot[r].pc \in {"idle", "done"}
    /\ reads < MaxReads
    /\ reads' = reads + 1
    /\ LET base == [IdlePSlot EXCEPT !.kind = "read", !.inm = inm]
       IN IF shop = None \/ shop = Some(<< >>)
          THEN pslot' = [pslot EXCEPT ![r] =
                   [base EXCEPT !.pc = "done", !.reject = "shop_required", !.status = 400]]
          ELSE IF ~SHOP_RE(shop[1])
          THEN pslot' = [pslot EXCEPT ![r] =
                   [base EXCEPT !.pc = "done", !.reject = "shop", !.status = 400]]
          ELSE IF ~redis
          THEN pslot' = [pslot EXCEPT ![r] =
                   PresenceReply([base EXCEPT !.reject = "none", !.key = shop,
                                              !.sec = FloorSec(nowMs)], 0, nowMs)]
          ELSE pslot' = [pslot EXCEPT ![r] =
                   [base EXCEPT !.pc = "evict", !.reject = "none",
                                !.key = shop, !.sec = FloorSec(nowMs)]]
    /\ UNCHANGED << nowMs, ticks, ingestVars, redis, zset, ttl, lastBeat, beats, agentVars, fault, stream, visit >>

\* await redis.zremrangebyscore(key, 0, now - ACTIVE_WINDOW_SEC)
ReadEvict(r) ==
    /\ pslot[r].pc = "evict"
    /\ IF fault["redis"] = "throws"
       THEN /\ UNCHANGED << zset, ttl >>
            /\ pslot' = [pslot EXCEPT ![r] = InternalError(pslot[r])]
       ELSE /\ zset' = ZRemRangeByScore(zset, pslot[r].key[1], 0,
                                        pslot[r].sec - ACTIVE_WINDOW_SEC)
            /\ ttl' = TtlAfter(ttl, zset')
            /\ pslot' = [pslot EXCEPT ![r].pc = "count"]
    /\ UNCHANGED << nowMs, ticks, ingestVars, redis, lastBeat, beats, reads, agentVars, fault, stream, visit >>

\* current = await redis.zcount(key, now - ACTIVE_WINDOW_SEC, '+inf'); the
\* payload's ts is read from the clock and the reply is sent.
ReadCount(r) ==
    /\ pslot[r].pc = "count"
    /\ pslot' = [pslot EXCEPT ![r] =
           IF fault["redis"] = "throws"
           THEN InternalError(pslot[r])
           ELSE PresenceReply(pslot[r],
                              ZCount(zset, pslot[r].key[1], pslot[r].sec - ACTIVE_WINDOW_SEC),
                              nowMs)]
    /\ UNCHANGED << nowMs, ticks, ingestVars, redis, zset, ttl, lastBeat, beats, reads, agentVars, fault, stream, visit >>

\* POST /cleanup with the tracking key for shop k: DEL presence:<k>. The key
\* and its time-to-live are gone.
Cleanup(k) ==
    /\ redis
    /\ fault["redis"] = "ok"
    /\ KeyExists(zset, k)
    /\ zset' = { e \in zset : e.key # k }
    /\ ttl' = TtlAfter(ttl, zset')
    /\ UNCHANGED << nowMs, ticks, ingestVars, redis, pslot, lastBeat, beats, reads, agentVars, fault, stream, visit >>

\* Steps of the clock of SpecPresence (ms): half a second, and half a second
\* less than the window.
PresenceSteps == { 500, ACTIVE_WINDOW_SEC * 1000 - 500 }

\* The clock advances; keys whose time-to-live ran out disappear. A beat's
\* upsert and a read's windowed count are taken as operations of the store
\* that complete within the second whose clock value they carry: the clock
\* does not step while a handler holds a clock value it has yet to use.
\* Commands of different handlers still interleave.
TickPresence ==
    /\ ticks < MaxPresenceTicks
    /\ \A r \in Slots : pslot[r].pc \notin {"zadd", "evict", "count"}
    /\ ticks' = ticks + 1
    /\ \E d \in PresenceSteps :
          /\ nowMs' = nowMs + d
          /\ zset' = Expired(zset, ttl, FloorSec(nowMs + d))
          /\ ttl' = TtlAfter(ttl, zset')
    /\ UNCHANGED << ingestVars, redis, pslot, lastBeat, beats, reads, agentVars, fault, stream, visit >>

\* The clock of SpecFrame advances by one second.
TickFrame ==
    /\ ticks < MaxFrameTicks
    /\ \A r \in Slots : pslot[r].pc # "zadd"
    /\ ticks' = ticks + 1
    /\ nowMs' = nowMs + 1000
    /\ zset' = Expired(zset, ttl, FloorSec(nowMs + 1000))
    /\ ttl' = TtlAfter(ttl, zset')
    /\ UNCHANGED << ingestVars, redis, pslot, lastBeat, beats, reads, agentVars, fault, stream, visit >>

\* Steps of the clock of SpecTtl (ms): one second, and one second less than
\* the time-to-live.
TtlSteps == { 1000, (PRESENCE_TTL_SEC - 1) * 1000 }

\* The clock of SpecTtl advances; keys whose time-to-live ran out disappear.
\* The clock does not step while a beat holds the second it has yet to
\* write; it can step between a beat's ZADD and its EXPIRE, which are two
\* commands.
TickTtl ==
    /\ ticks < MaxTtlTicks
    /\ \A r \in Slots : pslot[r].pc # "zadd"
    /\ ticks' = ticks + 1
    /\ \E d \in TtlSteps :
          /\ nowMs' = nowMs + d
          /\ zset' = Expired(zset, ttl, FloorSec(nowMs + d))
          /\ ttl' = TtlAfter(ttl, zset')
    /\ UNCHANGED << ingestVars, redis, pslot, lastBeat, beats, reads, agentVars, fault, stream, visit >>

\* The presence subsystem at rest.
PresenceIdle ==
    /\ redis = TRUE
    /\ zset = {}
    /\ ttl = [k \in PresenceKeys |-> 0]
    /\ pslot = [r \in Slots |-> IdlePSlot]
    /\ lastBeat = [k \in PresenceKeys |-> [m \in Members |-> -1]]
    /\ beats = 0
    /\ reads = 0

(***************************************************************************)
(* The presence stream: GET /presence/stream (server-sent events)          *)
(***************************************************************************)
\* setInterval(..., 2000)
STREAM_INTERVAL_MS == 2000

\* The step of the clock of SpecStream.
StreamStepMs == STREAM_INTERVAL_MS \div 2

\* No subscription. runs holds the executions of the count that are between
\* their first await and their write; out is what was written to the
\* response, each message with the time of the write; fires counts the
\* firings of the interval.
NoStream ==
    [state |-> "none", status |-> 0, key |-> None, openedAt |-> 0,
     interval |-> None, runs |-> {}, out |-> << >>, fires |-> 0]

\* The two places that start a count: the call at subscription and the
\* callback of the interval.
RunNames == { "first", "tick" }

\* reply.raw.write(`data: ${JSON.stringify({current, display: current, strategy: 'raw'})}`)
DataMsg(by, current, now) ==
    [kind |-> "data", by |-> by, current |-> current, display |-> current, at |-> now]

\* What is written before any count: the comment, retry: 5000 and the ping.
Preamble(now) ==
    << [kind |-> "comment", by |-> "open", current |-> 0, display |-> 0, at |-> now],
       [kind |-> "retry", by |-> "open", current |-> 0, display |-> 0, at |-> now],
       [kind |-> "ping", by |-> "open", current |-> 0, display |-> 0, at |-> now] >>

\* const stop = () => { clearInterval(interval); reply.raw.end() }
stop(st) == [st EXCEPT !.state = "ended", !.interval = None]

\* Mutant of FirstRun: the subscription starts no count of its own.
FirstRun_None(st, now) == st

\* "Ilk deger hemen": the async function called at once, up to its first
\* await (the eviction in flight), or to its write when no store is configured.
FirstRun(st, now) ==
    IF redis
    THEN [st EXCEPT !.runs = @ \cup {[by |-> "first", pc |-> "evict", sec |-> FloorSec(now)]}]
    ELSE [st EXCEPT !.out = Append(@, DataMsg("first", 0, now))]

\* GET /presence/stream: the shop parameter is checked, the headers and the
\* preamble are written, the interval is set, and the first count is started.
Subscribe(shop) ==
    /\ stream.state = "none"
    /\ stream.status = 0
    /\ IF shop = None \/ shop = Some(<< >>) \/ ~SHOP_RE(shop[1])
       THEN stream' = [stream EXCEPT !.status = 400]
       ELSE stream' = FirstRun([stream EXCEPT !.state = "open", !.status = 200,
                                              !.key = shop, !.openedAt = nowMs,
                                              !.out = Preamble(nowMs),
                                              !.interval = Some(nowMs + STREAM_INTERVAL_MS)],
                               nowMs)
    /\ UNCHANGED << nowMs, ticks, ingestVars, presenceVars, agentVars, fault, visit >>

\* The interval fires: the callback runs up to its first await, or to its
\* write when no store is configured; the next firing is one period later.
IntervalFire ==
    /\ stream.interval # None
    /\ nowMs >= stream.interval[1]
    /\ LET st == [stream EXCEPT !.interval = Some(@[1] + STREAM_INTERVAL_MS),
                                !.fires = @ + 1]
       IN stream' = IF redis
                    THEN [st EXCEPT !.runs = @ \cup {[by |-> "tick", pc |-> "evict",
                                                      sec |-> FloorSec(nowMs)]}]
                    ELSE [st EXCEPT !.out = Append(@, DataMsg("tick", 0, nowMs))]
    /\ UNCHANGED << nowMs, ticks, ingestVars, presenceVars, agentVars, fault, visit >>

\* await redis.zremrangebyscore(key, 0, now - ACTIVE_WINDOW_SEC); catch: stop()
StreamEvict(by) ==
    \E run \in stream.runs :
    /\ run.by = by
    /\ run.pc = "evict"
    /\ IF fault["redis"] = "throws"
       THEN /\ UNCHANGED << zset, ttl >>
            /\ stream' = stop([stream EXCEPT !.runs = @ \ {run}])
       ELSE /\ zset' = ZRemRangeByScore(zset, stream.key[1], 0, run.sec - ACTIVE_WINDOW_SEC)
            /\ ttl' = TtlAfter(ttl, zset')
            /\ stream' = [stream EXCEPT !.runs = (@ \ {run}) \cup {[run EXCEPT !.pc = "count"]}]
    /\ UNCHANGED << nowMs, ticks, ingestVars, redis, pslot, lastBeat, beats, reads, agentVars, fault, visit >>

\* Mutant of StreamCount: the stream counts in a key space of its own, which
\* no beat writes to.
StreamCount_OwnKeys(by) ==
    \E run \in stream.runs :
    /\ run.by = by
    /\ run.pc = "count"
    /\ LET st == [stream EXCEPT !.runs = @ \ {run}]
       IN stream' = IF fault["redis"] = "throws" \/ stream.state = "ended"
                    THEN stop(st)
                    ELSE [st EXCEPT !.out = Append(@,
                             DataMsg(run.by,
                                     ZCount(zset, << "s", ":" >> \o stream.key[1],
                                            run.sec - ACTIVE_WINDOW_SEC),
                                     nowMs))]
    /\ UNCHANGED << nowMs, ticks, ingestVars, presenceVars, agentVars, fault, visit >>

\* current = await redis.zcount(key, now - ACTIVE_WINDOW_SEC, '+inf'), then the
\* data message is written; a write to an ended response throws: stop().
StreamCount(by) ==
    \E run \in stream.runs :
    /\ run.by = by
    /\ run.pc = "count"
    /\ LET st == [stream EXCEPT !.runs = @ \ {run}]
       IN stream' = IF fault["redis"] = "throws" \/ stream.state = "ended"
                    THEN stop(st)
                    ELSE [st EXCEPT !.out = Append(@,
                             DataMsg(run.by,
                                     ZCount(zset, stream.key[1], run.sec - ACTIVE_WINDOW_SEC),
                                     nowMs))]
    /\ UNCHANGED << nowMs, ticks, ingestVars, presenceVars, agentVars, fault, visit >>

\* req.raw.on('close', stop): the subscriber goes away.
CloseStream ==
    /\ stream.state = "open"
    /\ stream' = stop(stream)
    /\ UNCHANGED << nowMs, ticks, ingestVars, presenceVars, agentVars, fault, visit >>

\* The clock of SpecStream advances by half a period, never past a firing of
\* the interval that is due, and, as in TickPresence, not while a command of
\* the store carries a clock value it has yet to use.
TickStream ==
    /\ ticks < MaxStreamTicks
    /\ \A r \in Slots : pslot[r].pc \notin {"zadd", "evict", "count"}
    /\ stream.runs = {}
    /\ stream.interval # None => nowMs < stream.interval[1]
    /\ ticks' = ticks + 1
    /\ nowMs' = nowMs + StreamStepMs
    /\ zset' = Expired(zset, ttl, FloorSec(nowMs + StreamStepMs))
    /\ ttl' = TtlAfter(ttl, zset')
    /\ UNCHANGED << ingestVars, redis, pslot, lastBeat, beats, reads, agentVars, fault, stream, visit >>

(***************************************************************************)
(* The leader-tab lease of the tracker script                              *)
(***************************************************************************)
\* The tabs of one browser on one site. A tab is opened at most once and
\* its name stands for the tabId the script draws when it is loaded.
Tabs == { "tab_1", "tab_2", "tab_3" }

\* initializeLeaderTab, checkLeaderStatus: a lease older than this is stale.
LEASE_STALE_MS == 30000
\* initializeLeaderTab: the leader rewrites the lease timestamp this often.
LEASE_RENEW_MS == 10000
\* startPresenceLoop: period of the loop that checks the lease and beats.
PRESENCE_LOOP_MS == 5000
\* Step of the browser's clock: one period of the presence loop.
LeaderTickMs == PRESENCE_LOOP_MS
\* updateActivity, sendPresenceHeartbeat: 4 minutes without activity.
INACTIVITY_TIMEOUT == 4 * 60 * 1000

\* The script's variables of a tab that has not been loaded. A timer handle
\* is None when no timer is set and Some(t) when the timer fires next at t.
\* holderClosed is history: the tab was open when the tab holding the lease
\* was closed. beat is what the tab's last step did with the presence
\* heartbeat: None if it did not call sendPresenceHeartbeat(), otherwise who
\* called it, when, how long after the last activity, and whether the beat
\* was sent. resumed is history: an activity restarted a stopped loop. seen
\* is the lease a load in progress has read and not yet acted on.
NewTab ==
    [ state |-> "new", isLeaderTab |-> FALSE, leaderTabId |-> NULL,
      heartbeatInterval |-> None, leaderTimestampInterval |-> None,
      lastActivityTime |-> 0, activityTimeout |-> None,
      beat |-> None, resumed |-> FALSE,
      holderClosed |-> FALSE, seen |-> None ]

\* A tab that was closed: its page and the script's variables are gone.
ClosedTab == [NewTab EXCEPT !.state = "closed"]

\* localStorage without the lease keys.
NoLease ==
    [ ecomxtrade_leader_tab |-> NULL, ecomxtrade_leader_timestamp |-> None ]

\* startPresenceLoop(): starts the 5 s loop unless it runs.
startPresenceLoop(t, now) ==
    IF t.heartbeatInterval # None THEN t
    ELSE [t EXCEPT !.heartbeatInterval = Some(now + PRESENCE_LOOP_MS)]

\* stopPresenceLoop()
stopPresenceLoop(t) == [t EXCEPT !.heartbeatInterval = None]

\* Mutant of LeaseFree: a lease of exactly the threshold's age is stale.
LeaseFree_Inclusive(ls, now) ==
    \/ ls.ecomxtrade_leader_tab = NULL
    \/ ls.ecomxtrade_leader_timestamp = None
    \/ now - ls.ecomxtrade_leader_timestamp[1] >= LEASE_STALE_MS

\* The lease is absent, or older than the staleness threshold.
LeaseFree(ls, now) ==
    \/ ls.ecomxtrade_leader_tab = NULL
    \/ ls.ecomxtrade_leader_timestamp = None
    \/ now - ls.ecomxtrade_leader_timestamp[1] > LEASE_STALE_MS

\* initializeLeaderTab(): the tab takes a free lease and starts the renewal
\* timer and the presence loop; otherwise it follows the holder. The result
\* is the tab's variables and localStorage.
initializeLeaderTab(id, t, ls, now) ==
    IF LeaseFree(ls, now)
    THEN [ tab |-> startPresenceLoop(
                     [t EXCEPT !.isLeaderTab = TRUE,
                               !.leaderTabId = id,
                               !.leaderTimestampInterval = Some(now + LEASE_RENEW_MS)],
                     now),
           ls  |-> [ ecomxtrade_leader_tab |-> id,
                     ecomxtrade_leader_timestamp |-> Some(now) ] ]
    ELSE [ tab |-> [t EXCEPT !.isLeaderTab = FALSE,
                             !.leaderTabId = ls.ecomxtrade_leader_tab],
           ls  |-> ls ]

\* Mutant of checkLeaderStatus: a leader that lost the lease becomes follower
\* and leaves its timers running.
checkLeaderStatus_KeepsRenewing(id, t, ls, now) ==
    IF t.isLeaderTab /\ ls.ecomxtrade_leader_tab = t.leaderTabId
    THEN [ tab |-> t,
           ls  |-> [ls EXCEPT !.ecomxtrade_leader_timestamp = Some(now)] ]
    ELSE IF t.isLeaderTab
    THEN [ tab |-> [t EXCEPT !.isLeaderTab = FALSE], ls |-> ls ]
    ELSE IF \/ ls.ecomxtrade_leader_tab = NULL
            \/ ls.ecomxtrade_leader_timestamp = None
            \/ now - ls.ecomxtrade_leader_timestamp[1] > LEASE_STALE_MS
    THEN initializeLeaderTab(id, t, ls, now)
    ELSE [ tab |-> t, ls |-> ls ]

\* Mutant of checkLeaderStatus: a leader that lost the lease stays leader.
checkLeaderStatus_NoDemote(id, t, ls, now) ==
    IF t.isLeaderTab /\ ls.ecomxtrade_leader_tab = t.leaderTabId
    THEN [ tab |-> t,
           ls  |-> [ls EXCEPT !.ecomxtrade_leader_timestamp = Some(now)] ]
    ELSE IF t.isLeaderTab
    THEN [ tab |-> t, ls |-> ls ]
    ELSE IF \/ ls.ecomxtrade_leader_tab = NULL
            \/ ls.ecomxtrade_leader_timestamp = None
            \/ now - ls.ecomxtrade_leader_timestamp[1] > LEASE_STALE_MS
    THEN initializeLeaderTab(id, t, ls, now)
    ELSE [ tab |-> t, ls |-> ls ]

\* checkLeaderStatus(): a leader that still holds the lease renews it, a
\* leader that lost it stops its timers, a follower that sees no holder or
\* a stale lease runs initializeLeaderTab().
checkLeaderStatus(id, t, ls, now) ==
    IF t.isLeaderTab /\ ls.ecomxtrade_leader_tab = t.leaderTabId
    THEN [ tab |-> t,
           ls  |-> [ls EXCEPT !.ecomxtrade_leader_timestamp = Some(now)] ]
    ELSE IF t.isLeaderTab
    THEN [ tab |-> stopPresenceLoop(
                     [t EXCEPT !.isLeaderTab = FALSE,
                               !.leaderTimestampInterval = None]),
           ls  |-> ls ]
    ELSE IF \/ ls.ecomxtrade_leader_tab = NULL
            \/ ls.ecomxtrade_leader_timestamp = None
            \/ now - ls.ecomxtrade_leader_timestamp[1] > LEASE_STALE_MS
    THEN initializeLeaderTab(id, t, ls, now)
    ELSE [ tab |-> t, ls |-> ls ]

\* A timer of the tab is due.
Due(h, now) == h # None /\ h[1] <= now

\* Mutant of updateActivity: a stopped presence loop stays stopped.
updateActivity_NoRestart(t, now) ==
    [t EXCEPT !.lastActivityTime = now,
              !.activityTimeout = Some(now + INACTIVITY_TIMEOUT)]

\* updateActivity(): the time of the activity is recorded, a leader whose
\* presence loop is stopped starts it again, and the inactivity timeout is
\* set anew.
updateActivity(t, now) ==
    LET u == [t EXCEPT !.lastActivityTime = now,
                       !.activityTimeout = Some(now + INACTIVITY_TIMEOUT)]
    IN IF u.heartbeatInterval = None /\ u.isLeaderTab
       THEN [startPresenceLoop(u, now) EXCEPT !.resumed = TRUE]
       ELSE u

\* Mutant of sendPresenceHeartbeat: the leader beats whatever the time of
\* the last activity.
sendPresenceHeartbeat_Always(t, by, now) ==
    [t EXCEPT !.beat = Some([by |-> by, ts |-> now, idle |-> now - t.lastActivityTime,
                             sent |-> t.isLeaderTab])]

\* sendPresenceHeartbeat(), called by the handler named by: nothing is sent
\* unless the tab is leader, and nothing if the last activity is more than
\* INACTIVITY_TIMEOUT old; otherwise {shop, session_id, ts: now} is posted.
sendPresenceHeartbeat(t, by, now) ==
    [t EXCEPT !.beat = Some([by |-> by, ts |-> now, idle |-> now - t.lastActivityTime,
                             sent |-> /\ t.isLeaderTab
                                      /\ ~(now - t.lastActivityTime > INACTIVITY_TIMEOUT)])]

\* initTracking(): the script is loaded in a new tab. It runs
\* initializeLeaderTab(), records the load as an activity, sends the first
\* presence heartbeat, and starts the presence loop only if the tab became
\* leader.
OpenTab(id) ==
    /\ tab[id].state = "new"
    /\ LET r == initializeLeaderTab(id, tab[id], localStorage, nowMs)
           a == sendPresenceHeartbeat(updateActivity(r.tab, nowMs), "load", nowMs)
           t == IF a.isLeaderTab THEN startPresenceLoop(a, nowMs)
                ELSE a
       IN  /\ tab' = [tab EXCEPT ![id] =
                        [t EXCEPT !.state = "open"]]
           /\ localStorage' = r.ls
    /\ lastChurn' = nowMs
    /\ UNCHANGED << nowMs, ticks, ingestVars, presenceVars, fault, stream, visit, signals >>

\* The presence loop of a tab fires: checkLeaderStatus(), then
\* sendPresenceHeartbeat(). The interval stays set unless the check cleared
\* it.
PresenceLoopFire(id) ==
    /\ tab[id].state = "open"
    /\ Due(tab[id].heartbeatInterval, nowMs)
    /\ LET r == checkLeaderStatus(id, tab[id], localStorage, nowMs)
           next == IF r.tab.heartbeatInterval = None THEN None
                   ELSE Some(tab[id].heartbeatInterval[1] + PRESENCE_LOOP_MS)
       IN  /\ tab' = [tab EXCEPT ![id] =
                        sendPresenceHeartbeat([r.tab EXCEPT !.heartbeatInterval = next],
                                              "loop", nowMs)]
           /\ localStorage' = r.ls
    /\ UNCHANGED << nowMs, ticks, ingestVars, presenceVars, lastChurn, fault, stream, visit, signals >>

\* The renewal timer of a tab fires: it rewrites the lease timestamp.
LeaseRenewFire(id) ==
    /\ tab[id].state = "open"
    /\ Due(tab[id].leaderTimestampInterval, nowMs)
    /\ localStorage' =
         [localStorage EXCEPT !.ecomxtrade_leader_timestamp = Some(nowMs)]
    /\ tab' = [tab EXCEPT ![id].leaderTimestampInterval =
                 Some(tab[id].leaderTimestampInterval[1] + LEASE_RENEW_MS),
                          ![id].beat = None]
    /\ UNCHANGED << nowMs, ticks, ingestVars, presenceVars, lastChurn, fault, stream, visit, signals >>

\* The tab is closed: the unload handler clears the renewal timer, the page
\* and its timers are gone, and the lease keys stay in localStorage.
CloseTab(id) ==
    /\ tab[id].state = "open"
    /\ tab' = [o \in Tabs |->
                 IF o = id THEN ClosedTab
                 ELSE IF /\ tab[o].state = "open"
                         /\ localStorage.ecomxtrade_leader_tab = id
                      THEN [tab[o] EXCEPT !.holderClosed = TRUE]
                      ELSE tab[o]]
    /\ lastChurn' = nowMs
    /\ UNCHANGED << nowMs, ticks, ingestVars, presenceVars, localStorage, fault, stream, visit, signals >>

\* An activity event in the tab (mouse, key, scroll, touch, video):
\* updateActivity().
Activity(id) ==
    /\ tab[id].state = "open"
    /\ signals < MaxSignals
    /\ signals' = signals + 1
    /\ tab' = [tab EXCEPT ![id] = [updateActivity(tab[id], nowMs) EXCEPT !.beat = None]]
    /\ UNCHANGED << nowMs, ticks, ingestVars, presenceVars, localStorage, lastChurn, fault, stream, visit >>

\* Mutant of ActivityTimeoutFire: the inactivity timeout stops the renewal
\* of the lease as well.
ActivityTimeoutFire_StopsRenewal(id) ==
    /\ tab[id].state = "open"
    /\ Due(tab[id].activityTimeout, nowMs)
    /\ tab' = [tab EXCEPT ![id] =
                 [stopPresenceLoop(tab[id]) EXCEPT !.activityTimeout = None, !.beat = None,
                                                   !.leaderTimestampInterval = None]]
    /\ UNCHANGED << nowMs, ticks, ingestVars, presenceVars, localStorage, lastChurn, signals, fault, stream, visit >>

\* The inactivity timeout fires: the presence loop is cleared.
ActivityTimeoutFire(id) ==
    /\ tab[id].state = "open"
    /\ Due(tab[id].activityTimeout, nowMs)
    /\ tab' = [tab EXCEPT ![id] =
                 [stopPresenceLoop(tab[id]) EXCEPT !.activityTimeout = None, !.beat = None]]
    /\ UNCHANGED << nowMs, ticks, ingestVars, presenceVars, localStorage, lastChurn, signals, fault, stream, visit >>

\* The events that call sendPresenceHeartbeat() without being an activity:
\* the window gets the focus, the page becomes visible, the page navigates.
PageSignals == { "focus", "visibilitychange", "spa:navigate" }

PageSignal(id, kind) ==
    /\ tab[id].state = "open"
    /\ signals < MaxSignals
    /\ signals' = signals + 1
    /\ tab' = [tab EXCEPT ![id] = sendPresenceHeartbeat(tab[id], kind, nowMs)]
    /\ UNCHANGED << nowMs, ticks, ingestVars, presenceVars, localStorage, lastChurn, fault, stream, visit >>

\* The tabs that are open, and those of them that are in the Leader state.
OpenTabs == { id \in Tabs : tab[id].state = "open" }

LeaderTabs == { id \in OpenTabs : tab[id].isLeaderTab }

\* No timer of an open tab is waiting to fire.
TimersQuiet ==
    \A id \in OpenTabs :
        /\ ~Due(tab[id].heartbeatInterval, nowMs)
        /\ ~Due(tab[id].leaderTimestampInterval, nowMs)
        /\ ~Due(tab[id].activityTimeout, nowMs)

\* The browser's clock advances once every timer that is due has fired.
TickLeader ==
    /\ ticks < MaxLeaderTicks
    /\ TimersQuiet
    /\ ticks' = ticks + 1
    /\ nowMs' = nowMs + LeaderTickMs
    /\ UNCHANGED << ingestVars, presenceVars, agentVars, fault, stream, visit >>

\* The browser's clock in SpecActivity, over more than the inactivity timeout.
TickActivity ==
    /\ ticks < MaxActivityTicks
    /\ TimersQuiet
    /\ ticks' = ticks + 1
    /\ nowMs' = nowMs + LeaderTickMs
    /\ UNCHANGED << ingestVars, presenceVars, agentVars, fault, stream, visit >>

\* The tabs of a browser run in different processes, and localStorage has no
\* lock: the two getItem calls of initializeLeaderTab() in one tab and its
\* setItem calls are separated by steps of other tabs. LoadRead is the load
\* of the script up to the reads: tabId is drawn and the lease is read.
LoadRead(id) ==
    /\ tab[id].state = "new"
    /\ tab' = [tab EXCEPT ![id] = [@ EXCEPT !.state = "loading", !.seen = Some(localStorage)]]
    /\ UNCHANGED << nowMs, ticks, ingestVars, presenceVars, localStorage, lastChurn, fault, stream, visit, signals >>

\* The rest of the load: initializeLeaderTab() decides on the lease it read
\* and, if it takes it, overwrites both keys; initTracking() goes on as in
\* OpenTab.
LoadDecide(id) ==
    /\ tab[id].state = "loading"
    /\ LET r == initializeLeaderTab(id, tab[id], tab[id].seen[1], nowMs)
           a == sendPresenceHeartbeat(updateActivity(r.tab, nowMs), "load", nowMs)
           t == IF a.isLeaderTab THEN startPresenceLoop(a, nowMs)
                ELSE a
       IN  /\ tab' = [tab EXCEPT ![id] =
                        [t EXCEPT !.state = "open", !.seen = None]]
           /\ localStorage' = IF r.tab.isLeaderTab THEN r.ls ELSE localStorage
    /\ lastChurn' = nowMs
    /\ UNCHANGED << nowMs, ticks, ingestVars, presenceVars, fault, stream, visit, signals >>

\* The browser's clock in SpecRace: a load takes no time.
TickRace ==
    /\ ticks < MaxRaceTicks
    /\ TimersQuiet
    /\ \A id \in Tabs : tab[id].state # "loading"
    /\ ticks' = ticks + 1
    /\ nowMs' = nowMs + LeaderTickMs
    /\ UNCHANGED << ingestVars, presenceVars, agentVars, fault, stream, visit >>

\* The browser's clock in SpecIdle, over more than the inactivity timeout.
TickIdle ==
    /\ ticks < MaxIdleTicks
    /\ TimersQuiet
    /\ ticks' = ticks + 1
    /\ nowMs' = nowMs + LeaderTickMs
    /\ UNCHANGED << ingestVars, presenceVars, agentVars, fault, stream, visit >>

\* The browser's clock in SpecRenew, over more than the inactivity timeout.
TickRenew ==
    /\ ticks < MaxRenewTicks
    /\ TimersQuiet
    /\ \A id \in Tabs : tab[id].state # "loading"
    /\ ticks' = ticks + 1
    /\ nowMs' = nowMs + LeaderTickMs
    /\ UNCHANGED << ingestVars, presenceVars, agentVars, fault, stream, visit >>

\* No tab loaded and no lease in localStorage.
AgentIdle ==
    /\ tab = [id \in Tabs |-> NewTab]
    /\ localStorage = NoLease
    /\ lastChurn = StartMs
    /\ signals = 0

\* An activity event is handled in tab id in the step.
ActivityIn(id) ==
    /\ tab[id].state = "open"
    /\ tab'[id].state = "open"
    /\ signals' = signals + 1
    /\ tab'[id].lastActivityTime = nowMs

\* A tab of the browser is set to beat: it is leader and its presence loop
\* is running.
BeatsArmed(tb) ==
    \E l \in Tabs : tb[l].state = "open" /\ tb[l].isLeaderTab /\ tb[l].heartbeatInterval # None

\* C37, as claimed: after an activity event in any open tab, some tab of the
\* browser is leader with its presence loop running, so that presence
\* heartbeats go on; this holds whether or not the leader itself has seen
\* activity in the last four minutes.
C37_ActivityKeepsBeats ==
    [][ \A id \in Tabs : ActivityIn(id) => BeatsArmed(tab') ]_vars

(***************************************************************************)
(* The tracker's session: sessionStorage hrl_session, its backup           *)
(* localStorage hrl_last_seen, and rotateIfNeeded                          *)
(***************************************************************************)
\* 30 minutes without a sign of life start a new session.
MAX_SESSION_GAP_MS == 30 * 60 * 1000

\* JavaScript truthiness of a number read from storage: a missing field and
\* Number(null || 0) are both falsy and are written 0 here.
FalsyNum(n) == n = 0

\* s.last_seen || lastSeen || s.started_at
LastSign(s, lastSeen) ==
    IF ~FalsyNum(s.last_seen) THEN s.last_seen
    ELSE IF ~FalsyNum(lastSeen) THEN lastSeen
    ELSE s.started_at

\* Mutant of TooOld: a gap of exactly MAX_SESSION_GAP_MS rotates.
TooOld_Inclusive(s, lastSeen, now) == (now - LastSign(s, lastSeen)) >= MAX_SESSION_GAP_MS

\* (now - (s.last_seen || lastSeen || s.started_at)) > MAX_SESSION_GAP_MS
TooOld(s, lastSeen, now) == (now - LastSign(s, lastSeen)) > MAX_SESSION_GAP_MS

\* const newS = { id: uuid(), started_at: now, last_seen: now }; the n-th id
\* the browser draws is written n.
NewSession(n, now) == [id |-> n, started_at |-> now, last_seen |-> now]

\* rotateIfNeeded() on the storage v at time now: without a stored session,
\* or with one whose last sign of life is too old, a new session is stored
\* with its backup and returned; otherwise the stored one is returned and
\* storage is left alone. gap and rotated are history of this call.
rotateIfNeeded(v, now) ==
    IF v.hrl_session = None
    THEN [v EXCEPT !.hrl_session = Some(NewSession(v.minted + 1, now)),
                   !.hrl_last_seen = now,
                   !.SESSION = Some(NewSession(v.minted + 1, now)),
                   !.minted = @ + 1, !.gap = -1, !.rotated = TRUE]
    ELSE IF TooOld(v.hrl_session[1], v.hrl_last_seen, now)
    THEN [v EXCEPT !.hrl_session = Some(NewSession(v.minted + 1, now)),
                   !.hrl_last_seen = now,
                   !.SESSION = Some(NewSession(v.minted + 1, now)),
                   !.minted = @ + 1,
                   !.gap = now - LastSign(v.hrl_session[1], v.hrl_last_seen),
                   !.rotated = TRUE]
    ELSE [v EXCEPT !.SESSION = v.hrl_session,
                   !.gap = now - LastSign(v.hrl_session[1], v.hrl_last_seen),
                   !.rotated = FALSE]

\* touchSession(): the stored session's last_seen and the backup become now.
touchSession(v, now) ==
    IF v.hrl_session = None THEN v
    ELSE [v EXCEPT !.hrl_session = Some([v.hrl_session[1] EXCEPT !.last_seen = now]),
                   !.hrl_last_seen = now]

\* A browser that never ran the script: empty storage, no page loaded.
\* out is the last event the script handed to the network, kept is the
\* number of events the script holds for a later send, surfaced tells whether
\* a failed request reached the page as an error.
NoVisit ==
    [hrl_session |-> None, hrl_last_seen |-> 0, SESSION |-> None,
     minted |-> 0, loads |-> 0, gap |-> -1, rotated |-> FALSE,
     out |-> None, kept |-> 0, surfaced |-> FALSE]

\* What the storage can hold when the script starts: nothing; or a session
\* record left without last_seen, with or without the backup timestamp.
StoredAtStart(now) ==
    { NoVisit,
      [NoVisit EXCEPT !.hrl_session = Some([id |-> 1, started_at |-> now - 1, last_seen |-> 0]),
                      !.minted = 1],
      [NoVisit EXCEPT !.hrl_session = Some([id |-> 1, started_at |-> now - 2, last_seen |-> 0]),
                      !.hrl_last_seen = now - 1, !.minted = 1] }

\* The last_seen of the session record in sessionStorage; 0 when the record
\* or the field is missing.
StoredLastSeen(v) ==
    IF v.hrl_session = None THEN 0 ELSE v.hrl_session[1].last_seen

\* send(evtName, extra): the payload is built from SESSION.id, VISITOR_ID and
\* Date.now() and handed to one fetch with keepalive; storage is not written.
\* stored is the session record's last_seen when send returns, tries the
\* number of fetch requests issued for the event, event_id the field of that
\* name in the body of the fetch and beacon_id the one in the body of the
\* beacon: the payload of send has no such field.
send(v, evtName, now) ==
    [v EXCEPT !.out = Some([event |-> evtName, at |-> now, stored |-> StoredLastSeen(v),
                            beacon |-> "none", fetch |-> "pending", tries |-> 1,
                            event_id |-> NULL, beacon_id |-> NULL])]

\* uuid(): the identifier drawn for an exit ping.
EXIT_UUID == "22222222-2222-4222-8222-222222222222"

\* What navigator.sendBeacon does for the exit ping: it is missing, it
\* returns true, or it returns false or throws.
BeaconResults == { "unavailable", "accepted", "refused" }

\* exitPing(): a final visit_heartbeat with one event_id is given to
\* navigator.sendBeacon if that exists, its result is not read, and the same
\* payload is then handed to fetch with keepalive and an abort after 1500 ms.
exitPing(v, b, now) ==
    [v EXCEPT !.out = Some([event |-> "exit_ping", at |-> now, stored |-> StoredLastSeen(v),
                            beacon |-> b, fetch |-> "pending", tries |-> 1,
                            event_id |-> EXIT_UUID,
                            beacon_id |-> IF b = "unavailable" THEN NULL ELSE EXIT_UUID])]

\* The tracker script starts in a page of the tab: SESSION = rotateIfNeeded(),
\* then send('session_start').
LoadPage ==
    /\ visit.loads < MaxLoads
    /\ visit' = send([rotateIfNeeded(visit, nowMs) EXCEPT !.loads = @ + 1],
                     "session_start", nowMs)
    /\ UNCHANGED << nowMs, ticks, ingestVars, presenceVars, agentVars, fault, stream >>

\* The visit heartbeat of a loaded page fires while the user is active:
\* touchSession(), then send('visit_heartbeat').
TouchVisit ==
    /\ visit.SESSION # None
    /\ visit.hrl_session # None
    /\ visit.hrl_session[1].last_seen # nowMs
    /\ visit' = send(touchSession(visit, nowMs), "visit_heartbeat", nowMs)
    /\ UNCHANGED << nowMs, ticks, ingestVars, presenceVars, agentVars, fault, stream >>

\* The events the page reports through trackPageView, trackAddToCart,
\* trackCheckoutStarted and trackPurchase.
PageEvents == { "page_view", "add_to_cart", "checkout_started", "purchase" }

\* The page calls one of the track functions: send(name, extra).
SendEvent(evtName) ==
    /\ visit.SESSION # None
    /\ visit' = send(visit, evtName, nowMs)
    /\ UNCHANGED << nowMs, ticks, ingestVars, presenceVars, agentVars, fault, stream >>

\* The document becomes hidden, or pagehide fires without bfcache:
\* exitPing().
ExitPing(b) ==
    /\ visit.SESSION # None
    /\ visit' = exitPing(visit, b, nowMs)
    /\ UNCHANGED << nowMs, ticks, ingestVars, presenceVars, agentVars, fault, stream >>

\* The handlers of beforeunload and unload: trackEvent(kind), which is send.
UnloadEvents == { "beforeunload", "unload" }

Unload(kind) ==
    /\ visit.SESSION # None
    /\ visit' = send(visit, kind, nowMs)
    /\ UNCHANGED << nowMs, ticks, ingestVars, presenceVars, agentVars, fault, stream >>

\* Mutant of FetchSettle: the rejection handler puts the event back into a
\* queue of the script for the next flush.
FetchSettle_Requeue(ok) ==
    /\ visit.out # None
    /\ visit.out[1].fetch = "pending"
    /\ visit' = [visit EXCEPT !.out = Some([visit.out[1] EXCEPT !.fetch = IF ok THEN "ok" ELSE "failed"]),
                              !.kept = IF ok THEN @ ELSE 1]
    /\ UNCHANGED << nowMs, ticks, ingestVars, presenceVars, agentVars, fault, stream >>

\* The fetch of the last event settles: it resolves, or it rejects (network
\* error, abort) and .catch(()=>{}) swallows the rejection.
FetchSettle(ok) ==
    /\ visit.out # None
    /\ visit.out[1].fetch = "pending"
    /\ visit' = [visit EXCEPT !.out = Some([visit.out[1] EXCEPT !.fetch = IF ok THEN "ok" ELSE "failed"])]
    /\ UNCHANGED << nowMs, ticks, ingestVars, presenceVars, agentVars, fault, stream >>

\* The tab is closed: its sessionStorage and the script's variables are gone,
\* localStorage stays.
CloseVisit ==
    /\ visit.SESSION # None
    /\ visit' = [visit EXCEPT !.hrl_session = None, !.SESSION = None]
    /\ UNCHANGED << nowMs, ticks, ingestVars, presenceVars, agentVars, fault, stream >>

\* Steps of the clock of SpecSession (ms): one millisecond, and one
\* millisecond less than the session gap.
SessionSteps == { 1, MAX_SESSION_GAP_MS - 1 }

\* The clock of SpecSend.
TickSend ==
    /\ ticks < MaxSendTicks
    /\ ticks' = ticks + 1
    /\ \E d \in SessionSteps : nowMs' = nowMs + d
    /\ UNCHANGED << ingestVars, presenceVars, agentVars, fault, stream, visit >>

TickSession ==
    /\ ticks < MaxSessionTicks
    /\ ticks' = ticks + 1
    /\ \E d \in SessionSteps : nowMs' = nowMs + d
    /\ UNCHANGED << ingestVars, presenceVars, agentVars, fault, stream, visit >>

(***************************************************************************)
(* The request handlers of POST /collect and POST /app-proxy/collect       *)
(***************************************************************************)
\* A handler that holds no request.
IdleSlot ==
    [pc |-> "idle", path |-> NULL, reject |-> NULL, status |-> 0, note |-> NULL,
     recvMs |-> 0, ts |-> None, tsMs |-> 0, shop_domain |-> None, shopId |-> 0,
     session_id |-> NULL, visitor_id |-> NULL, event |-> NULL, event_id |-> NULL,
     page_path |-> NULL, ref |-> NULL, ua |-> NULL, ip |-> NULL, insErr |-> FALSE,
     error |-> NULL, errs |-> {}]

\* Why the handler refuses request q before any store access, or "none".
RejectOf(q) ==
    IF q.path = "proxy" /\ KeyRejected(q.key) THEN "key"
    ELSE IF ~q.rawOk THEN "parse"
    ELSE IF q.path = "collect" /\ ~CollectSchemaOk(q.body) THEN "parse"
    ELSE IF q.path = "proxy" /\ ~ProxySchemaOk(q.body) THEN "parse"
    ELSE IF ~SHOP_RE(q.body.shop_domain[1]) THEN "shop"
    ELSE "none"

\* The status of a refusal. A parse failure is thrown: /collect lets it
\* escape to the framework, /app-proxy/collect catches it and answers 400.
RejectStatus(path, reject) ==
    IF reject = "key" THEN 401
    ELSE IF reject = "shop" THEN 400
    ELSE IF path = "proxy" THEN 400
    ELSE UNCAUGHT_STATUS

\* The handler runs from the request to its first await: validation, tsMs,
\* and either a reply or the shop upsert in flight. From there on the two
\* endpoints run the same statements, so an accepted request no longer
\* records which of them received it.
Receive(r, q) ==
    /\ slot[r].pc \in {"idle", "done"}
    /\ received' = received + 1
    /\ LET rej == RejectOf(q)
           b == q.body
           base == [IdleSlot EXCEPT !.path = q.path, !.recvMs = nowMs, !.reject = rej]
       IN IF rej # "none"
          THEN slot' = [slot EXCEPT ![r] =
                   [base EXCEPT !.pc = "done", !.status = RejectStatus(q.path, rej)]]
          ELSE LET acc == [base EXCEPT
                              !.path = NULL,
                              !.ts = b.ts, !.tsMs = tsMsOf(nowMs, b.ts),
                              !.shop_domain = b.shop_domain,
                              !.session_id = b.session_id,
                              !.visitor_id = OrNull(b.visitor_id),
                              !.event = b.event, !.event_id = OrNull(b.event_id),
                              !.page_path = OrNull(b.page_path), !.ref = OrNull(b.ref),
                              !.ua = OrNull(q.ua), !.ip = IpOf(q.xff)]
               IN IF supabase
                  THEN slot' = [slot EXCEPT ![r] = [acc EXCEPT !.pc = "shop"]]
                  ELSE slot' = [slot EXCEPT ![r] =
                           [acc EXCEPT !.pc = "done", !.status = 200, !.note = "no_supabase"]]
    /\ UNCHANGED << nowMs, ticks, supabase, shops, sessions, events, page_views, presenceVars, agentVars, fault, stream, visit >>

\* catch (err) { return reply.code(500).send({ok: false, error: 'supabase_error'}) }
\* A call on table op rejected while handler h awaited it.
Caught(h, op) ==
    [h EXCEPT !.pc = "done", !.status = 500, !.error = "supabase_error",
              !.errs = @ \cup {op}]

\* A call on table op resolved to {error} while handler h awaited it.
Failed(h, op) == [h EXCEPT !.errs = @ \cup {op}]

\* await shops.upsert(...).select('id').single(); if (shopError) reply 500;
\* otherwise the session update follows.
ShopUpsert(r) ==
    /\ slot[r].pc = "shop"
    /\ IF fault["shops"] = "throws"
       THEN /\ shops' = shops
            /\ slot' = [slot EXCEPT ![r] = Caught(slot[r], "shops")]
       ELSE IF fault["shops"] = "error"
       THEN /\ shops' = shops
            /\ slot' = [slot EXCEPT ![r] =
                   [Failed(slot[r], "shops") EXCEPT !.pc = "done", !.status = 500,
                                                    !.error = "shop_upsert_failed"]]
       ELSE /\ shops' = UpsertShop(shops, slot[r].shop_domain[1])
            /\ slot' = [slot EXCEPT ![r].shopId = ShopIdOf(shops', slot[r].shop_domain[1]),
                                    ![r].pc = "sessUpdate"]
    /\ UNCHANGED << nowMs, ticks, supabase, sessions, events, page_views, received, presenceVars, agentVars, fault, stream, visit >>

\* Mutant of SessUpdate: the update moves the row to the shop of the event.
SessUpdate_Shop(r) ==
    /\ slot[r].pc = "sessUpdate"
    /\ IF fault["sessions"] = "throws"
       THEN /\ sessions' = sessions
            /\ slot' = [slot EXCEPT ![r] = Caught(slot[r], "sessions")]
       ELSE IF fault["sessions"] = "error"
       THEN /\ sessions' = sessions
            /\ slot' = [slot EXCEPT ![r] =
                   [Failed(slot[r], "sessions") EXCEPT !.pc = "sessInsert"]]
       ELSE /\ sessions' =
                 [i \in 1..Len(sessions) |->
                    IF sessions[i].id = slot[r].session_id
                    THEN [UpdateSession(sessions, slot[r].session_id, slot[r].tsMs,
                                        slot[r].ip, slot[r].ua, slot[r].ref)[i]
                            EXCEPT !.shop_id = slot[r].shopId]
                    ELSE sessions[i]]
            /\ slot' = [slot EXCEPT ![r].pc =
                   IF HasSession(sessions, slot[r].session_id) THEN "event" ELSE "sessInsert"]
    /\ UNCHANGED << nowMs, ticks, supabase, shops, events, page_views, received, presenceVars, agentVars, fault, stream, visit >>

\* Mutant of SessUpdate: the session update also refreshes the session's
\* presence entry of the shop.
SessUpdate_Presence(r) ==
    /\ slot[r].pc = "sessUpdate"
    /\ sessions' = UpdateSession(sessions, slot[r].session_id, slot[r].tsMs,
                                 slot[r].ip, slot[r].ua, slot[r].ref)
    /\ slot' = [slot EXCEPT ![r].pc =
           IF HasSession(sessions, slot[r].session_id) THEN "event" ELSE "sessInsert"]
    /\ zset' = ZAdd(zset, slot[r].shop_domain[1], slot[r].session_id, FloorSec(nowMs))
    /\ UNCHANGED << nowMs, ticks, supabase, shops, events, page_views, received, redis, ttl, pslot, lastBeat, beats, reads, agentVars, fault, stream, visit >>

\* 1) await sessions.update(...).eq('id', sessionId).select('id').maybeSingle()
\* updErr is never read: a failed update leaves updated null, as no row does.
SessUpdate(r) ==
    /\ slot[r].pc = "sessUpdate"
    /\ IF fault["sessions"] = "throws"
       THEN /\ sessions' = sessions
            /\ slot' = [slot EXCEPT ![r] = Caught(slot[r], "sessions")]
       ELSE IF fault["sessions"] = "error"
       THEN /\ sessions' = sessions
            /\ slot' = [slot EXCEPT ![r] =
                   [Failed(slot[r], "sessions") EXCEPT !.pc = "sessInsert"]]
       ELSE /\ sessions' = UpdateSession(sessions, slot[r].session_id, slot[r].tsMs,
                                         slot[r].ip, slot[r].ua, slot[r].ref)
            /\ slot' = [slot EXCEPT ![r].pc =
                   IF HasSession(sessions, slot[r].session_id) THEN "event" ELSE "sessInsert"]
    /\ UNCHANGED << nowMs, ticks, supabase, shops, events, page_views, received, presenceVars, agentVars, fault, stream, visit >>

\* 2) await sessions.insert({id, shop_id, visitor_id, first_seen, last_seen, ...})
SessInsert(r) ==
    /\ slot[r].pc = "sessInsert"
    /\ IF fault["sessions"] = "throws"
       THEN /\ sessions' = sessions
            /\ slot' = [slot EXCEPT ![r] = Caught(slot[r], "sessions")]
       ELSE IF fault["sessions"] = "error"
       THEN /\ sessions' = sessions
            /\ slot' = [slot EXCEPT ![r] =
                   [Failed(slot[r], "sessions") EXCEPT !.pc = "sessFallback", !.insErr = TRUE]]
       ELSE IF SessionInsertFails(sessions, slot[r].session_id)
       THEN /\ sessions' = sessions
            /\ slot' = [slot EXCEPT ![r].pc = "sessFallback", ![r].insErr = TRUE]
       ELSE /\ sessions' = Append(sessions,
                  [id |-> slot[r].session_id, shop_id |-> slot[r].shopId,
                   visitor_id |-> slot[r].visitor_id,
                   first_seen |-> slot[r].tsMs, last_seen |-> slot[r].tsMs,
                   ip |-> slot[r].ip, ua |-> slot[r].ua, referrer |-> slot[r].ref])
            /\ slot' = [slot EXCEPT ![r].pc = "event"]
    /\ UNCHANGED << nowMs, ticks, supabase, shops, events, page_views, received, presenceVars, agentVars, fault, stream, visit >>

\* if (insErr) await sessions.update({last_seen}).eq('id', sessionId)
\* The result of the fallback is not read.
SessFallback(r) ==
    /\ slot[r].pc = "sessFallback"
    /\ IF fault["sessions"] = "throws"
       THEN /\ sessions' = sessions
            /\ slot' = [slot EXCEPT ![r] = Caught(slot[r], "sessions")]
       ELSE IF fault["sessions"] = "error"
       THEN /\ sessions' = sessions
            /\ slot' = [slot EXCEPT ![r] =
                   [Failed(slot[r], "sessions") EXCEPT !.pc = "event"]]
       ELSE /\ sessions' = TouchSession(sessions, slot[r].session_id, slot[r].tsMs)
            /\ slot' = [slot EXCEPT ![r].pc = "event"]
    /\ UNCHANGED << nowMs, ticks, supabase, shops, events, page_views, received, presenceVars, agentVars, fault, stream, visit >>

\* The events row built from the request.
EventData(h) ==
    [shop_id |-> h.shopId, session_id |-> h.session_id, name |-> h.event,
     ts |-> h.tsMs, page_path |-> h.page_path, event_id |-> h.event_id]

\* The handler after its event write: on to the page view, or the reply.
Proceed(h) ==
    IF AfterEvent(h.event) = "pageView"
    THEN [h EXCEPT !.pc = "pageView"]
    ELSE [h EXCEPT !.pc = "done", !.status = 200]

\* Mutant of EventWrite: the request runs in a transaction, and a failed
\* event write rolls back the session row the request wrote.
EventWrite_Rollback(r) ==
    /\ slot[r].pc = "event"
    /\ IF fault["events"] = "throws"
       THEN /\ events' = events
            /\ sessions' = SelectSeq(sessions, LAMBDA s : s.id # slot[r].session_id)
            /\ slot' = [slot EXCEPT ![r] = Caught(slot[r], "events")]
       ELSE IF fault["events"] = "error"
       THEN /\ events' = events
            /\ sessions' = SelectSeq(sessions, LAMBDA s : s.id # slot[r].session_id)
            /\ slot' = [slot EXCEPT ![r] = Proceed(Failed(slot[r], "events"))]
       ELSE /\ events' = IF slot[r].event_id # NULL
                         THEN UpsertEvent(events, EventData(slot[r]))
                         ELSE InsertEvent(events, EventData(slot[r]))
            /\ sessions' = sessions
            /\ slot' = [slot EXCEPT ![r] = Proceed(slot[r])]
    /\ UNCHANGED << nowMs, ticks, supabase, shops, page_views, received, presenceVars, agentVars, fault, stream, visit >>

\* body.event_id ? events.upsert(eventData, onConflict) : events.insert(eventData)
\* if (eventError) log it; the handler goes on either way.
EventWrite(r) ==
    /\ slot[r].pc = "event"
    /\ IF fault["events"] = "throws"
       THEN /\ events' = events
            /\ slot' = [slot EXCEPT ![r] = Caught(slot[r], "events")]
       ELSE IF fault["events"] = "error"
       THEN /\ events' = events
            /\ slot' = [slot EXCEPT ![r] = Proceed(Failed(slot[r], "events"))]
       ELSE /\ events' = IF slot[r].event_id # NULL
                         THEN UpsertEvent(events, EventData(slot[r]))
                         ELSE InsertEvent(events, EventData(slot[r]))
            /\ slot' = [slot EXCEPT ![r] = Proceed(slot[r])]
    /\ UNCHANGED << nowMs, ticks, supabase, shops, sessions, page_views, received, presenceVars, agentVars, fault, stream, visit >>

\* Mutant of PageViewInsert: a page view equal to a stored one is not
\* inserted again.
PageViewInsert_Once(r) ==
    /\ slot[r].pc = "pageView"
    /\ IF fault["page_views"] = "throws"
       THEN /\ page_views' = page_views
            /\ slot' = [slot EXCEPT ![r] = Caught(slot[r], "page_views")]
       ELSE IF fault["page_views"] = "error"
       THEN /\ page_views' = page_views
            /\ slot' = [slot EXCEPT ![r] =
                   [Failed(slot[r], "page_views") EXCEPT !.pc = "done", !.status = 200]]
       ELSE /\ page_views' =
                 LET row == [shop_id |-> slot[r].shopId, session_id |-> slot[r].session_id,
                             path |-> IF slot[r].page_path = NULL THEN "/" ELSE slot[r].page_path,
                             ts |-> slot[r].tsMs]
                 IN IF \E k \in 1..Len(page_views) : page_views[k] = row
                    THEN page_views ELSE Append(page_views, row)
            /\ slot' = [slot EXCEPT ![r].pc = "done", ![r].status = 200]
    /\ UNCHANGED << nowMs, ticks, supabase, shops, sessions, events, received, presenceVars, agentVars, fault, stream, visit >>

\* if (body.event === 'page_view') await page_views.insert(...);
\* if (pageViewError) log it; reply ok.
PageViewInsert(r) ==
    /\ slot[r].pc = "pageView"
    /\ IF fault["page_views"] = "throws"
       THEN /\ page_views' = page_views
            /\ slot' = [slot EXCEPT ![r] = Caught(slot[r], "page_views")]
       ELSE IF fault["page_views"] = "error"
       THEN /\ page_views' = page_views
            /\ slot' = [slot EXCEPT ![r] =
                   [Failed(slot[r], "page_views") EXCEPT !.pc = "done", !.status = 200]]
       ELSE /\ page_views' = Append(page_views,
                   [shop_id |-> slot[r].shopId, session_id |-> slot[r].session_id,
                    path |-> IF slot[r].page_path = NULL THEN "/" ELSE slot[r].page_path,
                    ts |-> slot[r].tsMs])
            /\ slot' = [slot EXCEPT ![r].pc = "done", ![r].status = 200]
    /\ UNCHANGED << nowMs, ticks, supabase, shops, sessions, events, received, presenceVars, agentVars, fault, stream, visit >>

\* The server's clock advances.
TickIngest ==
    /\ ticks < MaxIngestTicks
    /\ ticks' = ticks + 1
    /\ nowMs' = nowMs + IngestTickMs
    /\ UNCHANGED << supabase, shops, sessions, events, page_views, slot, received, presenceVars, agentVars, fault, stream, visit >>

\* The durable store empty and no ingestion request in flight.
IngestEmpty ==
    /\ shops = << >>
    /\ sessions = << >>
    /\ events = << >>
    /\ page_views = << >>
    /\ slot = [r \in Slots |-> IdleSlot]
    /\ received = 0

InitIngest ==
    /\ nowMs = StartMs
    /\ ticks = 0
    /\ supabase \in BOOLEAN
    /\ IngestEmpty
    /\ PresenceIdle
    /\ AgentIdle
    /\ fault = NoFault
    /\ stream = NoStream
    /\ visit = NoVisit

\* The durable store configured and empty.
InitMeta ==
    /\ nowMs = StartMs
    /\ ticks = 0
    /\ supabase = TRUE
    /\ IngestEmpty
    /\ PresenceIdle
    /\ AgentIdle
    /\ fault = NoFault
    /\ stream = NoStream
    /\ visit = NoVisit

\* A request of SpecIngest arrives at a free handler.
ReceiveCore(r) ==
    /\ received < MaxRequests
    /\ \E q \in CoreRequests(nowMs) : Receive(r, q)

\* A request of SpecIngestEdge arrives at a free handler.
ReceiveEdge(r) ==
    /\ received < MaxEdgeRequests
    /\ \E q \in EdgeRequests(nowMs) : Receive(r, q)

HandlerStep(r) ==
    \/ ShopUpsert(r)
    \/ SessUpdate(r)
    \/ SessInsert(r)
    \/ SessFallback(r)
    \/ EventWrite(r)
    \/ PageViewInsert(r)

NextIngest ==
    \/ \E r \in Slots : ReceiveCore(r)
    \/ \E r \in Slots : HandlerStep(r)
    \/ TickIngest

NextIngestEdge ==
    \/ \E r \in Slots : ReceiveEdge(r)
    \/ \E r \in Slots : HandlerStep(r)
    \/ TickIngest

\* A request of SpecMeta arrives at a free handler.
ReceiveMeta(r) ==
    /\ received < MaxMetaRequests
    /\ \E q \in MetaRequests : Receive(r, q)

\* A delivery of SpecAgain arrives at a free handler.
ReceiveAgain(r) ==
    /\ received < MaxDeliveries
    /\ \E q \in AgainRequests : Receive(r, q)

NextAgain ==
    \/ \E r \in Slots : ReceiveAgain(r)
    \/ \E r \in Slots : HandlerStep(r)
    \/ TickIngest

\* The same page view, with its event_id, delivered again and again, one
\* delivery after the other and two at a time.
SpecAgain == InitMeta /\ [][NextAgain]_vars

\* A request of SpecShops arrives at a free handler.
ReceiveShops(r) ==
    /\ received < MaxShopRequests
    /\ \E q \in ShopRequests : Receive(r, q)

NextShops ==
    \/ \E r \in Slots : ReceiveShops(r)
    \/ \E r \in Slots : HandlerStep(r)
    \/ TickIngest

\* Events of one session id under two shop domains, one after the other and
\* at the same time.
SpecShops == InitMeta /\ [][NextShops]_vars

NextMeta ==
    \/ \E r \in Slots : ReceiveMeta(r)
    \/ \E r \in Slots : HandlerStep(r)

\* Events of one session with and without referrer, user agent and proxy
\* header, one after the other and at the same time.
SpecMeta == InitMeta /\ [][NextMeta]_vars

\* Concurrent and sequential events of one session.
SpecIngest == InitIngest /\ [][NextIngest]_vars

\* Boundary and refused inputs.
SpecIngestEdge == InitIngest /\ [][NextIngestEdge]_vars

InitPresence ==
    /\ nowMs = StartMs
    /\ ticks = 0
    /\ supabase = TRUE
    /\ IngestEmpty
    /\ redis \in BOOLEAN
    /\ zset = {}
    /\ ttl = [k \in PresenceKeys |-> 0]
    /\ pslot = [r \in Slots |-> IdlePSlot]
    /\ lastBeat = [k \in PresenceKeys |-> [m \in Members |-> -1]]
    /\ beats = 0
    /\ reads = 0
    /\ AgentIdle
    /\ fault = NoFault
    /\ stream = NoStream
    /\ visit = NoVisit

NextPresence ==
    \/ \E r \in Slots : \E b \in BeatBodies(nowMs) : ReceiveBeat(r, b)
    \/ \E r \in Slots : BeatZAdd(r)
    \/ \E r \in Slots : BeatExpire(r)
    \/ \E r \in Slots : \E shop \in ReadShops : ReceiveRead(r, shop, None)
    \/ \E r \in Slots : ReadEvict(r)
    \/ \E r \in Slots : ReadCount(r)
    \/ TickPresence

\* Beats and polls of one shop.
SpecPresence == InitPresence /\ [][NextPresence]_vars

\* Both stores configured and empty.
InitFrame ==
    /\ nowMs = StartMs
    /\ ticks = 0
    /\ supabase = TRUE
    /\ IngestEmpty
    /\ PresenceIdle
    /\ AgentIdle
    /\ fault = NoFault
    /\ stream = NoStream
    /\ visit = NoVisit

\* Bodies of the beats of SpecPoll: the two sessions, without ts.
PollBeatBodies == { [shop |-> Some(ShopA), session_id |-> m, ts |-> None] : m \in Members }

NextPoll ==
    \/ \E r \in Slots : \E b \in PollBeatBodies : ReceiveBeat(r, b)
    \/ \E r \in Slots : BeatZAdd(r)
    \/ \E r \in Slots : BeatExpire(r)
    \/ \E r \in Slots : \E inm \in InmChoices : ReceiveRead(r, Some(ShopA), inm)
    \/ \E r \in Slots : ReadEvict(r)
    \/ \E r \in Slots : ReadCount(r)
    \/ TickPresence

\* Conditional polls of one shop while its sessions beat.
SpecPoll == InitPresence /\ [][NextPoll]_vars

NextStream ==
    \/ \E shop \in ReadShops : Subscribe(shop)
    \/ IntervalFire
    \/ \E by \in RunNames : StreamEvict(by)
    \/ \E by \in RunNames : StreamCount(by)
    \/ CloseStream
    \/ \E r \in Slots : \E b \in PollBeatBodies : ReceiveBeat(r, b)
    \/ \E r \in Slots : BeatZAdd(r)
    \/ \E r \in Slots : BeatExpire(r)
    \/ TickStream

\* One subscriber of the presence stream while the shop's sessions beat.
SpecStream == InitPresence /\ [][NextStream]_vars

\* The presence store configured, and either working or rejecting every
\* command.
InitStop ==
    /\ nowMs = StartMs
    /\ ticks = 0
    /\ supabase = TRUE
    /\ IngestEmpty
    /\ redis = TRUE
    /\ zset = {}
    /\ ttl = [k \in PresenceKeys |-> 0]
    /\ pslot = [r \in Slots |-> IdlePSlot]
    /\ lastBeat = [k \in PresenceKeys |-> [m \in Members |-> -1]]
    /\ beats = 0
    /\ reads = 0
    /\ AgentIdle
    /\ fault \in { NoFault, [NoFault EXCEPT !["redis"] = "throws"] }
    /\ stream = NoStream
    /\ visit = NoVisit

NextStop ==
    \/ Subscribe(Some(ShopA))
    \/ IntervalFire
    \/ \E by \in RunNames : StreamEvict(by)
    \/ \E by \in RunNames : StreamCount(by)
    \/ CloseStream
    \/ \E r \in Slots : \E b \in PollBeatBodies : ReceiveBeat(r, b)
    \/ \E r \in Slots : BeatZAdd(r)
    \/ \E r \in Slots : BeatExpire(r)
    \/ TickStream

\* One subscriber of the presence stream that goes away at any time, over a
\* store that works or fails.
SpecStop == InitStop /\ [][NextStop]_vars

\* How long ago (s) the session stored at the start of SpecParity beat last:
\* beyond, on and inside the edge of the window.
ParityAges == { ACTIVE_WINDOW_SEC + 1, ACTIVE_WINDOW_SEC, ACTIVE_WINDOW_SEC - 2 }

\* The sorted set of the shop with one session that beat age seconds before
\* now and has not been evicted since.
StoredBeat(now, age) ==
    { [key |-> ShopA, member |-> U1, score |-> FloorSec(now) - age] }

\* The presence store when SpecParity starts: empty, or holding such a beat.
InitParity ==
    /\ nowMs = StartMs
    /\ ticks = 0
    /\ supabase = TRUE
    /\ IngestEmpty
    /\ redis \in BOOLEAN
    /\ \/ /\ zset = {}
          /\ ttl = [k \in PresenceKeys |-> 0]
          /\ lastBeat = [k \in PresenceKeys |-> [m \in Members |-> -1]]
       \/ \E age \in ParityAges :
             /\ redis
             /\ zset = StoredBeat(StartMs, age)
             /\ ttl = [k \in PresenceKeys |-> FloorSec(StartMs) - age + PRESENCE_TTL_SEC]
             /\ lastBeat = [k \in PresenceKeys |->
                              [m \in Members |-> IF m = U1 THEN FloorSec(StartMs) - age ELSE -1]]
    /\ pslot = [r \in Slots |-> IdlePSlot]
    /\ beats = 0
    /\ reads = 0
    /\ AgentIdle
    /\ fault = NoFault
    /\ stream = NoStream
    /\ visit = NoVisit

NextParity ==
    \/ Subscribe(Some(ShopA))
    \/ IntervalFire
    \/ \E by \in RunNames : StreamEvict(by)
    \/ \E by \in RunNames : StreamCount(by)
    \/ \E r \in Slots : \E b \in PollBeatBodies :
          beats + reads < MaxParityRequests /\ ReceiveBeat(r, b)
    \/ \E r \in Slots : BeatZAdd(r)
    \/ \E r \in Slots : BeatExpire(r)
    \/ \E r \in Slots :
          beats + reads < MaxParityRequests /\ ReceiveRead(r, Some(ShopA), None)
    \/ \E r \in Slots : ReadEvict(r)
    \/ \E r \in Slots : ReadCount(r)
    \/ ticks < MaxParityTicks /\ TickStream

\* A subscriber of the stream and pollers of the same shop, side by side.
SpecParity == InitParity /\ [][NextParity]_vars

InitLeader ==
    /\ nowMs = StartMs
    /\ ticks = 0
    /\ supabase = TRUE
    /\ IngestEmpty
    /\ PresenceIdle
    /\ AgentIdle
    /\ fault = NoFault
    /\ stream = NoStream
    /\ visit = NoVisit

NextLeader ==
    \/ \E id \in Tabs : OpenTab(id)
    \/ \E id \in Tabs : PresenceLoopFire(id)
    \/ \E id \in Tabs : LeaseRenewFire(id)
    \/ \E id \in Tabs : CloseTab(id)
    \/ TickLeader

\* Tabs of one site opened and closed in one browser.
SpecLeader == InitLeader /\ [][NextLeader]_vars

InitSession ==
    /\ nowMs = StartMs
    /\ ticks = 0
    /\ supabase = TRUE
    /\ IngestEmpty
    /\ PresenceIdle
    /\ AgentIdle
    /\ fault = NoFault
    /\ stream = NoStream
    /\ visit \in StoredAtStart(StartMs)

NextSession ==
    \/ LoadPage
    \/ TouchVisit
    \/ CloseVisit
    \/ TickSession

\* Page loads of one tab, with signs of life and pauses around 30 minutes.
SpecSession == InitSession /\ [][NextSession]_vars

\* A browser that never ran the script.
InitSend ==
    /\ nowMs = StartMs
    /\ ticks = 0
    /\ supabase = TRUE
    /\ IngestEmpty
    /\ PresenceIdle
    /\ AgentIdle
    /\ fault = NoFault
    /\ stream = NoStream
    /\ visit = NoVisit

NextSend ==
    \/ LoadPage
    \/ TouchVisit
    \/ \E evtName \in PageEvents : SendEvent(evtName)
    \/ \E b \in BeaconResults : ExitPing(b)
    \/ \E kind \in UnloadEvents : Unload(kind)
    \/ \E ok \in BOOLEAN : FetchSettle(ok)
    \/ TickSend

\* One tab that loads and reloads the page and sends every kind of event,
\* with requests that succeed and requests that fail.
SpecSend == InitSend /\ [][NextSend]_vars

\* The tab of SpecActivity.
ActivityTabs == { "tab_1" }

NextActivity ==
    \/ \E id \in ActivityTabs : OpenTab(id)
    \/ \E id \in ActivityTabs : PresenceLoopFire(id)
    \/ \E id \in ActivityTabs : LeaseRenewFire(id)
    \/ \E id \in ActivityTabs : Activity(id)
    \/ \E id \in ActivityTabs : ActivityTimeoutFire(id)
    \/ \E id \in ActivityTabs : \E kind \in PageSignals : PageSignal(id, kind)
    \/ TickActivity

\* One tab, which becomes leader when it is loaded, over more than four
\* minutes, with and without activity.
SpecActivity == InitLeader /\ [][NextActivity]_vars

\* The tabs of SpecRace.
RaceTabs == { "tab_1", "tab_2" }

NextRace ==
    \/ \E id \in RaceTabs : LoadRead(id)
    \/ \E id \in RaceTabs : LoadDecide(id)
    \/ \E id \in RaceTabs : PresenceLoopFire(id)
    \/ \E id \in RaceTabs : LeaseRenewFire(id)
    \/ \E id \in RaceTabs : Activity(id)
    \/ \E id \in RaceTabs : \E kind \in PageSignals : PageSignal(id, kind)
    \/ TickRace

\* Two tabs loaded at any times, also at the same time, and left open.
SpecRace == InitLeader /\ [][NextRace]_vars

NextRenew ==
    \/ \E id \in RaceTabs : LoadRead(id)
    \/ \E id \in RaceTabs : LoadDecide(id)
    \/ \E id \in RaceTabs : PresenceLoopFire(id)
    \/ \E id \in RaceTabs : LeaseRenewFire(id)
    \/ \E id \in RaceTabs : ActivityTimeoutFire(id)
    \/ \E id \in RaceTabs : CloseTab(id)
    \/ TickRenew

\* Two tabs loaded at any times and closed at any time, without any activity
\* after their load, over more than four minutes.
SpecRenew == InitLeader /\ [][NextRenew]_vars

NextIdle ==
    \/ \E id \in RaceTabs : ticks <= MaxIdleOpenTick /\ OpenTab(id)
    \/ \E id \in RaceTabs : PresenceLoopFire(id)
    \/ \E id \in RaceTabs : LeaseRenewFire(id)
    \/ \E id \in RaceTabs : signals < MaxIdleSignals /\ Activity(id)
    \/ \E id \in RaceTabs : ActivityTimeoutFire(id)
    \/ TickIdle

\* Two tabs opened within the first seconds and left open, with activity in
\* either of them at any time, over more than four minutes.
SpecIdle == InitLeader /\ [][NextIdle]_vars

\* How the stores can answer in SpecFault: all of them work; one table's
\* calls fail, by {error} or by rejecting; the durable store is unreachable
\* and every call on it fails; the presence store's commands reject.
FaultChoices ==
    { NoFault }
    \cup { [NoFault EXCEPT ![o] = f] : o \in DurableOps, f \in {"error", "throws"} }
    \cup { [o \in FaultOps |-> IF o \in DurableOps THEN "error" ELSE "ok"] }
    \cup { [NoFault EXCEPT !["redis"] = "throws"] }

\* The events of SpecFault: a page view with an event_id and a purchase without.
FaultRequests ==
    { Req(p, NULL, TRUE, b) :
        p \in Paths,
        b \in { GoodBody("page_view", None, "e1"), GoodBody("purchase", None, NULL) } }

InitFault ==
    /\ nowMs = StartMs
    /\ ticks = 0
    /\ supabase \in BOOLEAN
    /\ IngestEmpty
    /\ redis \in BOOLEAN
    /\ zset = {}
    /\ ttl = [k \in PresenceKeys |-> 0]
    /\ pslot = [r \in Slots |-> IdlePSlot]
    /\ lastBeat = [k \in PresenceKeys |-> [m \in Members |-> -1]]
    /\ beats = 0
    /\ reads = 0
    /\ AgentIdle
    /\ fault \in FaultChoices
    /\ stream = NoStream
    /\ visit = NoVisit

\* The requests of SpecFault received so far.
FaultLoad == received + beats + reads

NextFault ==
    \/ \E r \in Slots : \E q \in FaultRequests :
          FaultLoad < MaxFaultRequests /\ Receive(r, q)
    \/ \E r \in Slots : HandlerStep(r)
    \/ \E r \in Slots : \E b \in PollBeatBodies :
          FaultLoad < MaxFaultRequests /\ ReceiveBeat(r, b)
    \/ \E r \in Slots : BeatZAdd(r)
    \/ \E r \in Slots : BeatExpire(r)
    \/ \E r \in Slots : FaultLoad < MaxFaultRequests /\ ReceiveRead(r, Some(ShopA), None)
    \/ \E r \in Slots : ReadEvict(r)
    \/ \E r \in Slots : ReadCount(r)

NextTtl ==
    \/ \E r \in Slots : \E b \in PollBeatBodies : ReceiveBeat(r, b)
    \/ \E r \in Slots : BeatZAdd(r)
    \/ \E r \in Slots : BeatExpire(r)
    \/ TickTtl

\* Beats of one shop that nobody reads, over more than the time-to-live.
SpecTtl == InitFrame /\ [][NextTtl]_vars

NextFrame ==
    \/ \E r \in Slots : \E q \in FaultRequests :
          received < MaxFrameEvents /\ Receive(r, q)
    \/ \E r \in Slots : HandlerStep(r)
    \/ \E r \in Slots : \E b \in PollBeatBodies : ReceiveBeat(r, b)
    \/ \E r \in Slots : BeatZAdd(r)
    \/ \E r \in Slots : BeatExpire(r)
    \/ \E k \in PresenceKeys : Cleanup(k)
    \/ TickFrame

\* Events, beats and cleanups of one shop side by side.
SpecFrame == InitFrame /\ [][NextFrame]_vars

\* Events, beats and polls while a store is missing or failing.
SpecFault == InitFault /\ [][NextFault]_vars

(***************************************************************************)
(* Properties of ingestion                                                 *)
(***************************************************************************)
\* The request of handler r passed validation.
Accepted(r) == slot[r].pc # "idle" /\ slot[r].reject = "none"

\* The request of handler r passed validation and has been answered.
Answered(r) == slot[r].pc = "done" /\ slot[r].reject = "none"

\* The request of handler r was refused by validation.
Refused(r) == slot[r].pc = "done" /\ slot[r].reject # "none"

\* The event write of handler r has been executed.
EventWritten(r) ==
    \/ slot[r].pc = "pageView"
    \/ Answered(r) /\ slot[r].note = NULL

\* The session step of handler r has been executed.
SessionWritten(r) == slot[r].pc = "event" \/ EventWritten(r)

EventRows(sid, eid) == { i \in 1..Len(events) :
                           events[i].shop_id = sid /\ events[i].event_id = eid }
SessionRows(id) == { i \in 1..Len(sessions) : sessions[i].id = id }

C2_ConcurrentFirstInsert ==
    /\ \A i, j \in 1..Len(sessions) : sessions[i].id = sessions[j].id => i = j
    /\ \A r \in Slots :
          /\ SessionWritten(r) => Cardinality(SessionRows(slot[r].session_id)) = 1
          /\ slot[r].pc = "sessFallback" => Cardinality(SessionRows(slot[r].session_id)) = 1
          /\ Answered(r) => slot[r].status = 200

\* Both of the first two requests found no row to update; one insert was
\* refused and fell back; both are answered and one row is stored.
C2_Witness ==
    /\ received = 2
    /\ \E r1, r2 \in Slots :
          /\ Answered(r1) /\ slot[r1].insErr /\ slot[r1].status = 200
          /\ Answered(r2) /\ ~slot[r2].insErr /\ slot[r2].status = 200
          /\ slot[r1].session_id = slot[r2].session_id
    /\ Len(sessions) = 1

\* The step is the successful session insert of handler r.
InsertStep(r) ==
    /\ slot[r].pc = "sessInsert"
    /\ slot'[r].pc = "event"

\* C3: a sessions row is created with first_seen = last_seen = the effective
\* timestamp of the event that inserts it, and no later step changes its id
\* or its first_seen.
C3_FirstSeenImmutable ==
    [][ /\ Len(sessions') >= Len(sessions)
        /\ \A i \in 1..Len(sessions) :
              /\ sessions'[i].id = sessions[i].id
              /\ sessions'[i].first_seen = sessions[i].first_seen
        /\ \A i \in (Len(sessions) + 1)..Len(sessions') :
              \E r \in Slots :
                 /\ InsertStep(r)
                 /\ sessions'[i].id = slot[r].session_id
                 /\ sessions'[i].first_seen = slot[r].tsMs
                 /\ sessions'[i].last_seen = slot[r].tsMs ]_vars

\* A later event with an earlier timestamp has been processed: the row's
\* last_seen lies before its first_seen, which is that of the first event.
C3_Witness ==
    \E i \in 1..Len(sessions) :
       /\ sessions[i].last_seen < sessions[i].first_seen
       /\ \E r \in Slots : Answered(r) /\ slot[r].session_id = sessions[i].id
                                        /\ slot[r].tsMs = sessions[i].last_seen

\* C4, as claimed: once every received event has been processed, the row's
\* last_seen is the maximum of their effective timestamps, hence at least the
\* effective timestamp of every answered event of the session.
C4_LastSeenIsMaximum ==
    (\A q \in Slots : slot[q].pc \in {"idle", "done"}) =>
       \A r \in Slots : \A i \in 1..Len(sessions) :
          (Answered(r) /\ slot[r].note = NULL /\ sessions[i].id = slot[r].session_id)
             => sessions[i].last_seen >= slot[r].tsMs

\* The step is the session write of handler r (update, insert or fallback).
SessionWriteStep(r) ==
    /\ slot[r].pc \in {"sessUpdate", "sessInsert", "sessFallback"}
    /\ slot'[r].pc = "event"

\* C4, amended: every session write sets the row's last_seen to the effective
\* timestamp of the event being processed, so last_seen is that of the event
\* whose write executed last; no other step changes last_seen.
C4_LastWriteWins ==
    [][ /\ \A r \in Slots : SessionWriteStep(r) =>
              \E i \in 1..Len(sessions') :
                 /\ sessions'[i].id = slot[r].session_id
                 /\ sessions'[i].last_seen = slot[r].tsMs
        /\ (\A r \in Slots : ~SessionWriteStep(r)) =>
              \A i \in 1..Len(sessions) : sessions'[i].last_seen = sessions[i].last_seen
      ]_vars

\* Two events of one session were answered, the later write carrying the
\* earlier timestamp: last_seen is the smaller of the two.
C4_Witness ==
    \E r1, r2 \in Slots : \E i \in 1..Len(sessions) :
       /\ Answered(r1) /\ Answered(r2)
       /\ slot[r1].session_id = sessions[i].id
       /\ slot[r2].session_id = sessions[i].id
       /\ slot[r1].tsMs > slot[r2].tsMs
       /\ sessions[i].last_seen = slot[r2].tsMs

\* The timestamp the claim prescribes for the request of handler h.
PrescribedTs(h) ==
    IF h.ts = None THEN h.recvMs
    ELSE IF h.ts[1] - h.recvMs > 5 * 60 * 1000 THEN h.recvMs
    ELSE IF h.recvMs - h.ts[1] > 5 * 60 * 1000 THEN h.recvMs
    ELSE h.ts[1]

\* C9: the effective timestamp of an accepted event is the client's ts when
\* it lies within 5 minutes of the server's clock at receipt and the server's
\* clock otherwise; the session insert, the events row and the page_views row
\* written for the event carry that timestamp.
C9_SkewDefense ==
    /\ [](\A r \in Slots : Accepted(r) => slot[r].tsMs = PrescribedTs(slot[r]))
    /\ [][ \A r \in Slots :
              /\ InsertStep(r) =>
                    sessions'[Len(sessions')].first_seen = PrescribedTs(slot[r])
              /\ (slot[r].pc = "event" /\ slot'[r].pc # "event") =>
                    \E i \in 1..Len(events') :
                       /\ events'[i] = EventData(slot[r])
                       /\ events'[i].ts = PrescribedTs(slot[r])
              /\ (slot[r].pc = "pageView" /\ slot'[r].pc = "done") =>
                    page_views'[Len(page_views')].ts = PrescribedTs(slot[r]) ]_vars

\* Scenario D: a ts one hour ahead was replaced by the server's clock, and a
\* ts exactly 5 minutes behind was kept; both are stored.
C9_Witness ==
    \E r1, r2 \in Slots :
       /\ Answered(r1) /\ slot[r1].ts = Some(slot[r1].recvMs + 60 * 60 * 1000)
       /\ slot[r1].tsMs = slot[r1].recvMs
       /\ Answered(r2) /\ slot[r2].ts = Some(slot[r2].recvMs - 5 * 60 * 1000)
       /\ slot[r2].tsMs = slot[r2].recvMs - 5 * 60 * 1000
       /\ \E i \in 1..Len(page_views) : page_views[i].ts = slot[r1].tsMs
       /\ \E i \in 1..Len(page_views) : page_views[i].ts = slot[r2].tsMs

\* C10, as claimed: a request refused by validation is answered with a 4xx
\* status and writes nothing.
C10_RefusedIs4xx ==
    /\ \A r \in Slots : Refused(r) => slot[r].status \in 400..499
    /\ (received = 1 /\ \E r \in Slots : Refused(r)) =>
          /\ shops = << >> /\ sessions = << >>
          /\ events = << >> /\ page_views = << >>

\* C14: the shops table holds at most one row per domain, every handler
\* that resolved its shop holds the id of that row, and no step changes the
\* id or the domain of a stored row.
C14_ShopGetOrCreate ==
    /\ [](/\ \A i, j \in 1..Len(shops) :
                shops[i].domain = shops[j].domain => i = j
          /\ \A r \in Slots :
                (Accepted(r) /\ slot[r].note = NULL /\ slot[r].pc # "shop") =>
                   /\ HasShop(shops, slot[r].shop_domain[1])
                   /\ slot[r].shopId = ShopIdOf(shops, slot[r].shop_domain[1]))
    /\ [][ \A i \in 1..Len(shops) :
              Len(shops') >= Len(shops) /\ shops'[i] = shops[i] ]_vars

\* Two requests for the new domain were in flight together and both resolved
\* the shop before either went on: one row, one id.
C14_Witness ==
    /\ Len(shops) = 1
    /\ \A r \in Slots : slot[r].pc = "sessUpdate" /\ slot[r].shopId = shops[1].id

\* The step in which handler r, past its event write, replies.
ReplyStep(r) ==
    /\ slot[r].pc \in {"event", "pageView"}
    /\ slot'[r].pc = "done"

\* The events row of the request of handler h is stored.
EventStored(tbl, h) ==
    IF h.event_id # NULL THEN HasEvent(tbl, h.shopId, h.event_id)
    ELSE \E i \in 1..Len(tbl) : tbl[i] = EventData(h)

EventWriteStep(r) == slot[r].pc = "event" /\ slot'[r].pc # "event"

\* C16: every accepted submission without an event_id adds one events row,
\* whatever is stored already.
C16_NoEventIdNoDedup ==
    [][ \A r \in Slots :
           (EventWriteStep(r) /\ slot[r].event_id = NULL) =>
              events' = Append(events, EventData(slot[r])) ]_vars

\* The same event without an event_id was submitted twice: two equal rows.
C16_Witness ==
    \E i, j \in 1..Len(events) :
       /\ i # j
       /\ events[i] = events[j]
       /\ events[i].event_id = NULL

\* The durable store is not configured, or no call on it succeeds.
DurableUnavailable == ~supabase \/ \A o \in DurableOps : fault[o] # "ok"

\* The presence store is not configured, or its commands fail.
PresenceUnavailable == ~redis \/ fault["redis"] # "ok"

\* Handler r holds an answered beat that passed validation.
AnsweredBeat(r) ==
    /\ pslot[r].kind = "beat"
    /\ pslot[r].pc = "done"
    /\ pslot[r].reject = "none"

\* C11, as claimed: while the store an endpoint writes to is not configured
\* or cannot be reached, a valid event and a valid beat are answered with
\* success and a note that the service is degraded, never with a failure.
C11_DegradedSuccess ==
    /\ \A r \in Slots : (Answered(r) /\ DurableUnavailable) =>
                           (slot[r].status = 200 /\ slot[r].note # NULL)
    /\ \A r \in Slots : (AnsweredBeat(r) /\ PresenceUnavailable) =>
                           (pslot[r].status = 200 /\ pslot[r].note # NULL)

\* C20, as claimed: a valid event during whose processing a write to the
\* durable store failed (shop upsert, session write, event write or page-view
\* insert) is answered with a 5xx status.
C20_WriteFailureIs5xx ==
    \A r \in Slots : (Answered(r) /\ slot[r].errs # {}) => slot[r].status \in 500..599

\* The step in which a write of handler r to events or page_views fails.
LateFailureStep(r) ==
    /\ slot[r].pc \in {"event", "pageView"}
    /\ slot'[r].errs # slot[r].errs

\* The request of handler r wrote its session and then failed on events or
\* page_views only.
FailedAfterSession(r) ==
    /\ Answered(r)
    /\ slot[r].errs # {}
    /\ slot[r].errs \subseteq {"events", "page_views"}

\* C21: a failed event write or page-view insert leaves the sessions table
\* as it was, whether the call resolves to an error or rejects, and a request
\* answered after such a failure still has its sessions row.
C21_FailureKeepsSessionTouch ==
    /\ [](\A r \in Slots : FailedAfterSession(r) =>
              \E i \in 1..Len(sessions) : sessions[i].id = slot[r].session_id)
    /\ [][ \A r \in Slots : LateFailureStep(r) => sessions' = sessions ]_vars

\* The event write of a request rejected after its session insert: the
\* request is answered 500 and the row carries the request's timestamp.
C21_Witness ==
    \E r \in Slots : \E i \in 1..Len(sessions) :
       /\ FailedAfterSession(r)
       /\ slot[r].status = 500
       /\ sessions[i].id = slot[r].session_id
       /\ sessions[i].last_seen = slot[r].tsMs

\* C35, as claimed: every sessions row has first_seen <= last_seen.
C35_FirstSeenNotAfterLastSeen ==
    \A i \in 1..Len(sessions) : sessions[i].first_seen <= sessions[i].last_seen

\* The step is a session write of handler r for the id of row i with an
\* effective timestamp below the row's first_seen.
WritesEarlier(r, i) ==
    /\ SessionWriteStep(r)
    /\ slot[r].session_id = sessions[i].id
    /\ slot[r].tsMs < sessions[i].first_seen

\* C35, amended: a row is created with first_seen = last_seen and its
\* first_seen never changes; first_seen <= last_seen is lost only by a later
\* session write whose effective timestamp lies below first_seen, and that
\* write always loses it, because it stores its own timestamp as last_seen.
C35_OrderHoldsUntilEarlierWrite ==
    [][ \A i \in 1..Len(sessions') :
           IF i > Len(sessions)
           THEN sessions'[i].first_seen = sessions'[i].last_seen
           ELSE /\ sessions'[i].first_seen = sessions[i].first_seen
                /\ (\E r \in Slots : WritesEarlier(r, i))
                     => sessions'[i].last_seen < sessions'[i].first_seen
                /\ ( /\ sessions[i].first_seen <= sessions[i].last_seen
                     /\ sessions'[i].last_seen < sessions'[i].first_seen )
                     => \E r \in Slots : WritesEarlier(r, i) ]_vars

\* Every request has been answered and the row's last_seen lies a whole skew
\* tolerance before its first_seen.
C35_Witness ==
    /\ \A r \in Slots : Answered(r)
    /\ \E i \in 1..Len(sessions) :
          sessions[i].first_seen - sessions[i].last_seen = SKEW_TOLERANCE_MS

\* The handlers that have received a request and not yet answered it.
InFlight == { r \in Slots : slot[r].pc \notin {"idle", "done"} }

C38_SessionShopIsFixed ==
    /\ [](\A i, j \in 1..Len(sessions) : sessions[i].id = sessions[j].id => i = j)
    /\ [][ /\ Len(sessions') >= Len(sessions)
           /\ \A i \in 1..Len(sessions) :
                 /\ sessions'[i].id = sessions[i].id
                 /\ sessions'[i].shop_id = sessions[i].shop_id
                 /\ sessions'[i].visitor_id = sessions[i].visitor_id
                 /\ sessions'[i].first_seen = sessions[i].first_seen ]_vars

\* The session was created under a.io; a later event of the same session id
\* under B-2 was answered with success after updating the row's last_seen,
\* and its events row carries the other shop's id.
C38_Witness ==
    /\ Len(sessions) = 1
    /\ Len(shops) = 2
    /\ sessions[1].shop_id = ShopIdOf(shops, ShopA)
    /\ sessions[1].last_seen > sessions[1].first_seen
    /\ \E r \in Slots :
          /\ Answered(r)
          /\ slot[r].status = 200
          /\ slot[r].shop_domain = Some(ShopUpper)
          /\ slot[r].shopId = ShopIdOf(shops, ShopUpper)
          /\ slot[r].session_id = sessions[1].id
          /\ slot[r].tsMs = sessions[1].last_seen
          /\ \E i \in 1..Len(events) :
                events[i].shop_id = slot[r].shopId /\ events[i].session_id = sessions[1].id

\* The step is handler r's event write for a (shop_id, event_id) that is
\* already stored.
RedeliveryStep(r) ==
    /\ slot[r].pc = "event"
    /\ slot'[r].pc # "event"
    /\ slot[r].event_id # NULL
    /\ HasEvent(events, slot[r].shopId, slot[r].event_id)

UpdatesRow(r, i) ==
    /\ slot[r].pc = "sessUpdate"
    /\ slot'[r].pc = "event"
    /\ sessions[i].id = slot[r].session_id

\* What a column holds after an event that supplied v: v, or the old value
\* when the event supplied none.
LastSupplied(old, v) == IF v = NULL THEN old ELSE v

\* C30: no step replaces a non-null ip, ua or referrer of a sessions row by
\* null, and a session update leaves each of the three columns with the value
\* its event supplied or, when the event supplied none, with the stored one.
C30_MetadataNeverNulled ==
    [][ \A i \in 1..Len(sessions) :
           /\ sessions[i].ip # NULL => sessions'[i].ip # NULL
           /\ sessions[i].ua # NULL => sessions'[i].ua # NULL
           /\ sessions[i].referrer # NULL => sessions'[i].referrer # NULL
           /\ \A r \in Slots : UpdatesRow(r, i) =>
                 /\ sessions'[i].ip = LastSupplied(sessions[i].ip, slot[r].ip)
                 /\ sessions'[i].ua = LastSupplied(sessions[i].ua, slot[r].ua)
                 /\ sessions'[i].referrer = LastSupplied(sessions[i].referrer, slot[r].ref) ]_vars

(***************************************************************************)
(* Properties of presence                                                  *)
(***************************************************************************)
\* The step is the count of the read in handler r.
CountStep(r) == pslot[r].pc = "count" /\ pslot'[r].pc = "done"

\* The step is the ZADD of the beat in handler r.
ZAddStep(r) == pslot[r].pc = "zadd" /\ pslot'[r].pc = "expire"

\* The sessions of shop key whose latest recorded beat, at second T,
\* satisfies sec < T + W.
InWindow(key, sec) ==
    { m \in Members : /\ lastBeat[key][m] >= 0
                      /\ sec < lastBeat[key][m] + ACTIVE_WINDOW_SEC }

EntriesOf(z, key, m) == { e \in z : e.key = key /\ e.member = m }

AnsweredRead(r) ==
    /\ pslot[r].kind = "read"
    /\ pslot[r].pc = "done"
    /\ pslot[r].reject = "none"
    /\ pslot[r].errs = {}

\* The validator of a payload's current and display fields alone.
Fingerprint(current, display) == ETagOf([current |-> current, display |-> display])

\* C12: the validator of a presence poll is the fingerprint of {current,
\* display} and does not depend on ts; a poll whose If-None-Match equals it is
\* answered 304 without body or ETag header, and every other poll is answered
\* 200 with the payload {current, display, ts} and the validator as ETag.
C12_ETagIgnoresTs ==
    /\ \A r \in Slots : AnsweredRead(r) =>
          LET fp == Fingerprint(pslot[r].current, pslot[r].current)
          IN /\ pslot[r].etag = fp
             /\ IF pslot[r].inm # None /\ pslot[r].inm = fp
                THEN /\ pslot[r].status = 304
                     /\ pslot[r].body = None
                     /\ pslot[r].header = None
                ELSE /\ pslot[r].status = 200
                     /\ pslot[r].body = Some([current |-> pslot[r].current,
                                              display |-> pslot[r].current,
                                              ts |-> pslot[r].ts])
                     /\ pslot[r].header = fp
    /\ \A r1, r2 \in Slots :
          (AnsweredRead(r1) /\ AnsweredRead(r2) /\ pslot[r1].current = pslot[r2].current)
             => pslot[r1].etag = pslot[r2].etag

\* A poll was answered 200 with one session present; a later poll, at another
\* time, sent that reply's ETag as If-None-Match and was answered 304.
C12_Witness ==
    \E r1, r2 \in Slots :
       /\ AnsweredRead(r1) /\ pslot[r1].status = 200 /\ pslot[r1].current = 1
       /\ AnsweredRead(r2) /\ pslot[r2].status = 304
       /\ pslot[r2].inm = pslot[r1].header
       /\ pslot[r2].ts # pslot[r1].ts

\* The data message m was written by the count started at subscription.
IsFirstData(m) == m.kind = "data" /\ m.by = "first"

\* The data message m was written by a firing of the interval.
IsTickData(m) == m.kind = "data" /\ m.by = "tick"

\* The tick-driven data messages of the stream, in the order written.
TickData == SelectSeq(stream.out, IsTickData)

\* The step writes a data message to the stream.
DataWriteStep ==
    /\ Len(stream'.out) = Len(stream.out) + 1
    /\ stream'.out[Len(stream'.out)].kind = "data"

DataOut == SelectSeq(stream.out, LAMBDA m : m.kind = "data")

\* The count of the stream and the count of the poll in handler r are both
\* in flight for the same shop with the same clock second.
SameInstant(run, r) ==
    /\ run.pc = "count"
    /\ pslot[r].kind = "read"
    /\ pslot[r].pc = "count"
    /\ pslot[r].key = stream.key
    /\ pslot[r].sec = run.sec

\* C22: every data message of the stream and every payload of a poll has
\* display equal to current; without a presence store both report 0; and when
\* a count of the stream and a count of a poll are taken on the same state of
\* the store for the same shop and clock second, whichever of the two
\* executes reports the number the other would.
C22_PollPushParity ==
    /\ [](/\ \A i \in 1..Len(DataOut) :
                /\ DataOut[i].display = DataOut[i].current
                /\ ~redis => DataOut[i].current = 0
          /\ \A r \in Slots : (AnsweredRead(r) /\ pslot[r].status = 200) =>
                /\ pslot[r].body[1].display = pslot[r].body[1].current
                /\ ~redis => pslot[r].body[1].current = 0)
    /\ [][ \A r \in Slots : \A run \in stream.runs : SameInstant(run, r) =>
              /\ CountStep(r) =>
                    pslot'[r].current =
                       ZCount(zset, stream.key[1], run.sec - ACTIVE_WINDOW_SEC)
              /\ (DataWriteStep /\ run \notin stream'.runs) =>
                    stream'.out[Len(stream'.out)].current =
                       ZCount(zset, pslot[r].key[1], pslot[r].sec - ACTIVE_WINDOW_SEC) ]_vars

\* A poll and the stream counted the shop in the same second while a session
\* was inside the window: the poll's payload and a data message of the stream
\* written at the same time both report 1.
C22_Witness ==
    \E r \in Slots : \E i \in 1..Len(DataOut) :
       /\ AnsweredRead(r) /\ pslot[r].status = 200
       /\ pslot[r].key = stream.key
       /\ pslot[r].body[1].current = 1
       /\ DataOut[i].current = 1
       /\ DataOut[i].at = pslot[r].ts

\* Handler r of POST /presence/beat executes its ZADD in the step.
BeatAdds(r, e) ==
    /\ pslot[r].kind = "beat"
    /\ pslot[r].pc = "zadd"
    /\ pslot'[r].pc = "expire"
    /\ e = [key |-> pslot[r].key[1], member |-> pslot[r].member, score |-> pslot[r].sec]

\* Handler r of POST /presence/beat executes its EXPIRE in the step.
BeatExpires(r, k) ==
    /\ pslot[r].kind = "beat"
    /\ pslot[r].pc = "expire"
    /\ pslot'[r].pc = "done"
    /\ pslot[r].key[1] = k

\* C33: a step of an ingestion handler leaves the presence sets and their
\* time-to-live as they are; every entry that appears in a presence set, or
\* appears with a new score, is written by the ZADD of a beat, and every
\* time-to-live that is set or moved is written by the EXPIRE of a beat; a
\* step of a beat handler leaves shops, sessions, events and page_views as
\* they are.
C33_PresenceOwnedByBeat ==
    [][ /\ slot' # slot => UNCHANGED << zset, ttl >>
        /\ \A e \in zset' \ zset : \E r \in Slots : BeatAdds(r, e)
        /\ \A k \in PresenceKeys :
              (ttl'[k] # 0 /\ ttl'[k] # ttl[k]) => \E r \in Slots : BeatExpires(r, k)
        /\ pslot' # pslot => UNCHANGED << shops, sessions, events, page_views >> ]_vars

\* An event of session s1 and a beat have both been answered with success,
\* the event has its rows, and the presence set holds the beat's member only.
C33_Witness ==
    /\ \E r \in Slots : Answered(r) /\ slot[r].status = 200
    /\ \E r \in Slots : AnsweredBeat(r) /\ pslot[r].status = 200
    /\ Len(sessions) = 1
    /\ Len(events) >= 1
    /\ zset # {}
    /\ \A e \in zset : e.member \in Members

\* The current second of the server's clock.
NowSec == FloorSec(nowMs)

\* Every EXPIRE of a beat on an existing key sets the key's time-to-live to
\* 300 s from now.
BeatResetsTtl ==
    \A r \in Slots : \A k \in PresenceKeys :
       (BeatExpires(r, k) /\ KeyExists(zset, k)) => ttl'[k] = NowSec + PRESENCE_TTL_SEC

\* A key that exists has a time-to-live that has not run out, unless a beat
\* stands between its ZADD and its EXPIRE.
KeysExpire ==
    \A k \in PresenceKeys : KeyExists(zset, k) =>
       \/ ttl[k] > NowSec /\ ttl[k] <= NowSec + PRESENCE_TTL_SEC
       \/ \E r \in Slots : pslot[r].pc = "expire" /\ pslot[r].key[1] = k

\* The entries the step's expiry removes are outside the active window.
ExpirySparesWindow ==
    nowMs' # nowMs =>
       \A e \in zset \ zset' : e.score < FloorSec(nowMs') - ACTIVE_WINDOW_SEC

\* C34: every beat sets the time-to-live of the shop's key to 300 s, a key is
\* gone when that time has run out without a further beat, whether or not
\* anybody reads, and the expiry of a key removes no entry that is still
\* inside the active window.
C34_TtlSparesLiveEntries ==
    /\ []KeysExpire
    /\ [][BeatResetsTtl]_vars
    /\ [][ExpirySparesWindow]_vars

\* The state of a beat handler after an accepted receipt of member m for key
\* k at the present second: nothing in it comes from the body's ts.
AcceptedBeat(k, m) ==
    [IdlePSlot EXCEPT !.kind = "beat", !.reject = "none", !.pc = "zadd",
                      !.key = k, !.member = m, !.sec = NowSec]

\* C36: no presence entry is dated later than the server's clock; a beat
\* that is accepted leaves its handler in a state fixed by shop, session and
\* the server's second, whatever ts its body carried; and the score of every
\* entry written is the second at which its beat was received.
C36_ScoreIsServerClock ==
    /\ [](\A e \in zset : e.score <= NowSec)
    /\ [][ \A r \in Slots :
             (pslot'[r] # pslot[r] /\ pslot'[r].kind = "beat" /\ pslot'[r].pc = "zadd") =>
                [pslot'[r] EXCEPT !.cts = None] = AcceptedBeat(pslot'[r].key, pslot'[r].member) ]_vars
    /\ [][ \A e \in zset' \ zset : \E r \in Slots : BeatAdds(r, e) /\ e.score = NowSec ]_vars

\* The two sessions beat in the same second, one with a ts an hour ahead and
\* one with a ts a minute behind: both entries carry the server's second.
C36_Witness ==
    \E r1, r2 \in Slots :
       /\ AnsweredBeat(r1) /\ AnsweredBeat(r2)
       /\ pslot[r1].cts # None /\ pslot[r1].cts[1] > nowMs
       /\ pslot[r2].cts # None /\ pslot[r2].cts[1] < nowMs
       /\ pslot[r1].sec = NowSec /\ pslot[r2].sec = NowSec
       /\ \A r \in {r1, r2} :
             [key |-> pslot[r].key[1], member |-> pslot[r].member, score |-> NowSec] \in zset
       /\ Cardinality(zset) = 2

\* The stream has ended: its timer is cancelled, and from then on nothing is
\* written to it and its interval does not fire.
EndedWritesNothing ==
    /\ [](stream.state = "ended" => stream.interval = None)
    /\ [][ stream.state = "ended" =>
             /\ stream'.state = "ended"
             /\ stream'.out = stream.out
             /\ stream'.fires = stream.fires ]_vars

\* After the end of the stream no count is started and no computation goes
\* on from its eviction to its ZCOUNT.
EndedCountsNothing ==
    [][ stream.state = "ended" => \A run \in stream'.runs : run \in stream.runs ]_vars

\* C40, as claimed: once the stream was stopped, by the subscriber going
\* away or by a failed computation, its timer is cancelled, no message is
\* written any more and no evict-then-count goes on, that of the first
\* computation included.
C40_StoppedStreamIsQuiet == EndedWritesNothing /\ EndedCountsNothing

(***************************************************************************)
(* Properties of the leader lease                                          *)
(***************************************************************************)
\* The settling period: the staleness threshold plus one check tick.
SettlingMs == LEASE_STALE_MS + PRESENCE_LOOP_MS

\* Some tab is open, no tab was opened or closed for longer than the
\* settling period, and every timer that was due has fired.
Settled ==
    /\ OpenTabs # {}
    /\ nowMs - lastChurn > SettlingMs
    /\ TimersQuiet

\* C6: once no tab has been opened or closed for longer than the settling
\* period, exactly one of the open tabs is in the Leader state.
C6_OneLeaderWhenSettled ==
    Settled => Cardinality(LeaderTabs) = 1

\* The tab holding the lease was closed while a follower that is still open
\* was open, and the lease has been stale for longer than one check tick.
LeaderGone ==
    /\ localStorage.ecomxtrade_leader_tab # NULL
    /\ tab[localStorage.ecomxtrade_leader_tab].state = "closed"
    /\ \E f \in OpenTabs : tab[f].holderClosed
    /\ localStorage.ecomxtrade_leader_timestamp # None
    /\ nowMs - localStorage.ecomxtrade_leader_timestamp[1] > SettlingMs
    /\ TimersQuiet

\* C7: when the leader tab was closed while a follower stays open, then by
\* one check tick after the lease became stale a remaining tab is leader.
C7_FollowerTakesOver ==
    LeaderGone => LeaderTabs # {}

\* What a tab that checks the lease now finds: no holder, no renewal
\* timestamp, or a renewal more than 30 s old.
FindsNoLiveLease ==
    \/ localStorage.ecomxtrade_leader_tab = NULL
    \/ localStorage.ecomxtrade_leader_timestamp = None
    \/ nowMs - localStorage.ecomxtrade_leader_timestamp[1] > 30000

\* The step is one of tab id, which is not leader before and open after it.
NonLeaderStep(id) ==
    /\ ~tab[id].isLeaderTab
    /\ tab'[id] # tab[id]
    /\ tab'[id].state = "open"

\* C23: a tab that is not leader becomes leader only in a step in which it
\* finds no holder, no renewal timestamp or a renewal more than 30 s old, and
\* the step then stores the tab's id and the current time as the lease; when
\* it finds a holder with a renewal at most 30 s old it is follower after the
\* step and the stored lease is unchanged.
C23_LeaderOnlyIfLeaseFree ==
    [][ \A id \in Tabs : NonLeaderStep(id) =>
           /\ tab'[id].isLeaderTab =>
                 /\ FindsNoLiveLease
                 /\ localStorage' = [ ecomxtrade_leader_tab |-> id,
                                      ecomxtrade_leader_timestamp |-> Some(nowMs) ]
           /\ ~FindsNoLiveLease =>
                 /\ ~tab'[id].isLeaderTab
                 /\ localStorage' = localStorage ]_vars

\* Tab a held the lease and tab c, loaded while the lease was fresh, follows
\* it; a was closed, and tab b, loaded after the lease had gone stale, took it.
C23_Witness ==
    \E a, b, c \in Tabs :
       /\ tab[a].state = "closed"
       /\ tab[c].state = "open" /\ ~tab[c].isLeaderTab
       /\ tab[c].leaderTabId = a /\ tab[c].holderClosed
       /\ tab[b].state = "open" /\ tab[b].isLeaderTab
       /\ localStorage.ecomxtrade_leader_tab = b

\* The step is a firing of the presence loop of tab id, which believes it is
\* leader while the stored lease id is not its own.
OverwrittenCheck(id) ==
    /\ tab[id].state = "open"
    /\ tab[id].isLeaderTab
    /\ localStorage.ecomxtrade_leader_tab # tab[id].leaderTabId
    /\ Due(tab[id].heartbeatInterval, nowMs)
    /\ tab'[id] # tab[id]
    /\ tab'[id].beat # None
    /\ tab'[id].beat[1].by = "loop"

\* The step is one of tab id, which is open and follower before and after it.
FollowerStep(id) ==
    /\ tab[id].state = "open"
    /\ ~tab[id].isLeaderTab
    /\ tab'[id] # tab[id]
    /\ tab'[id].state = "open"
    /\ ~tab'[id].isLeaderTab

\* C24: the check of a leader that finds a stored lease id other than its
\* own makes it follower, clears its renewal timer and its presence loop and
\* sends no beat; and no step of a follower writes the lease, sets the
\* renewal timer or sends a presence heartbeat.
C24_OverwrittenLeaderDemotes ==
    [][ \A id \in Tabs :
           /\ OverwrittenCheck(id) =>
                 /\ ~tab'[id].isLeaderTab
                 /\ tab'[id].leaderTimestampInterval = None
                 /\ tab'[id].heartbeatInterval = None
                 /\ ~tab'[id].beat[1].sent
                 /\ localStorage' = localStorage
           /\ FollowerStep(id) =>
                 /\ tab'[id].leaderTimestampInterval = None
                 /\ localStorage' = localStorage
                 /\ tab'[id].beat # None => ~tab'[id].beat[1].sent ]_vars

\* A tab that took the lease and was overwritten has been demoted by its
\* check, and a focus event afterwards sent no beat.
C24_Witness ==
    \E id \in Tabs :
       /\ tab[id].state = "open"
       /\ ~tab[id].isLeaderTab
       /\ tab[id].leaderTabId = id
       /\ localStorage.ecomxtrade_leader_tab # id
       /\ tab[id].beat # None
       /\ tab[id].beat[1].by = "focus"
       /\ ~tab[id].beat[1].sent

\* Every load is over, no tab was loaded during the last period of the
\* presence loop, and every timer that was due has fired.
RaceSettled ==
    /\ OpenTabs # {}
    /\ \A id \in Tabs : tab[id].state # "loading"
    /\ nowMs - lastChurn >= PRESENCE_LOOP_MS
    /\ TimersQuiet

\* C26: a tab in the Leader state whose id is not the stored one has its
\* check pending within one period of the presence loop after the last load,
\* and once that period has passed and the checks have run, the only tab in
\* the Leader state is the one whose id is stored.
C26_TwoLeadersTransient ==
    /\ \A id \in LeaderTabs : localStorage.ecomxtrade_leader_tab # id =>
          /\ tab[id].heartbeatInterval # None
          /\ tab[id].heartbeatInterval[1] <= lastChurn + PRESENCE_LOOP_MS
    /\ RaceSettled => LeaderTabs = { localStorage.ecomxtrade_leader_tab }

\* Two tabs read the absent lease before either wrote it: both are in the
\* Leader state at the same time.
C26_Witness ==
    /\ Cardinality(LeaderTabs) = 2
    /\ \A id \in LeaderTabs : tab[id].leaderTabId = id

\* The tab whose id is stored in the lease is open and in the Leader state.
HolderLive ==
    /\ localStorage.ecomxtrade_leader_tab # NULL
    /\ tab[localStorage.ecomxtrade_leader_tab].state = "open"
    /\ tab[localStorage.ecomxtrade_leader_tab].isLeaderTab

\* The stored renewal of a live holder: its timer is set and the timestamp is
\* never more than 10 s old, active or not.
RenewalFresh ==
    HolderLive =>
       /\ tab[localStorage.ecomxtrade_leader_tab].leaderTimestampInterval # None
       /\ localStorage.ecomxtrade_leader_timestamp # None
       /\ nowMs - localStorage.ecomxtrade_leader_timestamp[1] <= LEASE_RENEW_MS

\* Tab id finishes its load on a lease it read while the live holder's id was
\* already stored.
DecidesOnLiveLease(id) ==
    /\ tab[id].state = "loading"
    /\ tab'[id].state = "open"
    /\ HolderLive
    /\ tab[id].seen[1].ecomxtrade_leader_tab = localStorage.ecomxtrade_leader_tab

\* Tab id finishes its load on a lease it read before the present holder
\* stored its id.
DecidesOnEarlierRead(id) ==
    /\ tab[id].state = "loading"
    /\ tab'[id].state = "open"
    /\ tab[id].seen[1].ecomxtrade_leader_tab # localStorage.ecomxtrade_leader_tab

C17_NoBeatWhenInactive ==
    \A id \in Tabs :
       (tab[id].beat # None /\ tab[id].beat[1].sent) =>
          tab[id].beat[1].idle <= INACTIVITY_TIMEOUT

\* A leader whose last activity is more than four minutes old got the focus,
\* became visible or navigated, and sent nothing.
C17_Witness ==
    \E id \in Tabs :
       /\ tab[id].state = "open"
       /\ tab[id].isLeaderTab
       /\ tab[id].beat # None
       /\ tab[id].beat[1].by \in PageSignals
       /\ tab[id].beat[1].idle > INACTIVITY_TIMEOUT
       /\ ~tab[id].beat[1].sent

\* The step is an activity in leader tab id whose presence loop is stopped.
ResumeStep(id) ==
    /\ tab[id].state = "open"
    /\ tab[id].isLeaderTab
    /\ tab[id].heartbeatInterval = None
    /\ tab'[id].lastActivityTime > tab[id].lastActivityTime

\* The step is a firing of the presence loop of tab id that leaves it running.
LoopFireStep(id) ==
    /\ tab[id].state = "open"
    /\ Due(tab[id].heartbeatInterval, nowMs)
    /\ tab'[id].heartbeatInterval = Some(tab[id].heartbeatInterval[1] + PRESENCE_LOOP_MS)

\* C18: an activity in a leader tab whose presence loop was stopped by the
\* inactivity timeout starts the loop again, its next firing one period
\* later, without a reload; while a leader's last activity is less than four
\* minutes old its loop is running, and every firing of the loop of a tab
\* that is leader and active sends a heartbeat.
C18_ActivityResumesBeats ==
    /\ [](\A id \in Tabs :
            ( /\ tab[id].state = "open"
              /\ tab[id].isLeaderTab
              /\ nowMs - tab[id].lastActivityTime < INACTIVITY_TIMEOUT ) =>
               /\ tab[id].heartbeatInterval # None
               /\ tab[id].heartbeatInterval[1] <= nowMs + PRESENCE_LOOP_MS)
    /\ [][ \A id \in Tabs :
             /\ ResumeStep(id) =>
                   tab'[id].heartbeatInterval = Some(nowMs + PRESENCE_LOOP_MS)
             /\ ( /\ LoopFireStep(id)
                  /\ tab'[id].isLeaderTab
                  /\ nowMs - tab[id].lastActivityTime <= INACTIVITY_TIMEOUT ) =>
                   /\ tab'[id].beat # None
                   /\ tab'[id].beat[1].sent
                   /\ tab'[id].beat[1].ts = nowMs ]_vars

\* The loop of a leader was stopped by the timeout, an activity started it
\* again, and a firing of the restarted loop has sent a heartbeat.
C18_Witness ==
    \E id \in Tabs :
       /\ tab[id].state = "open"
       /\ tab[id].resumed
       /\ tab[id].beat # None
       /\ tab[id].beat[1].by = "loop"
       /\ tab[id].beat[1].sent


(***************************************************************************)
(* Properties of session rotation                                          *)
(***************************************************************************)
\* The step is a run of rotateIfNeeded().
RotateStep == visit'.loads = visit.loads + 1

\* The session the step's rotateIfNeeded() returned is a new one: its id was
\* never drawn before, it starts now, and it is stored with its backup.
Minted ==
    /\ visit'.minted = visit.minted + 1
    /\ visit'.SESSION = Some([id |-> visit'.minted, started_at |-> nowMs, last_seen |-> nowMs])
    /\ visit'.hrl_session = visit'.SESSION
    /\ visit'.hrl_last_seen = nowMs

\* The step's rotateIfNeeded() returned the stored session and wrote nothing.
Kept ==
    /\ visit'.minted = visit.minted
    /\ visit'.SESSION = visit.hrl_session
    /\ visit'.hrl_session = visit.hrl_session
    /\ visit'.hrl_last_seen = visit.hrl_last_seen

\* C19: rotateIfNeeded() returns a session with a new id when no session is
\* stored, and when the stored one's last_seen (or, if that is missing, the
\* backup timestamp, or else started_at) is more than 30 minutes old;
\* otherwise it returns the stored session unchanged. A gap of 30 minutes or
\* less never rotates.
C19_RotateAfterGap ==
    [][ RotateStep =>
          IF visit.hrl_session = None
          THEN Minted
          ELSE LET s == visit.hrl_session[1]
                   sign == IF s.last_seen # 0 THEN s.last_seen
                           ELSE IF visit.hrl_last_seen # 0 THEN visit.hrl_last_seen
                           ELSE s.started_at
               IN IF nowMs - sign > MAX_SESSION_GAP_MS THEN Minted ELSE Kept ]_vars

\* A session was kept by a load exactly 30 minutes after its last sign of
\* life, after an earlier load had rotated.
C19_Witness ==
    /\ visit.loads >= 2
    /\ visit.minted >= 2
    /\ visit.SESSION # None
    /\ visit.gap = MAX_SESSION_GAP_MS
    /\ ~visit.rotated

(***************************************************************************)
(* Properties of event delivery                                            *)
(***************************************************************************)
\* The session record's last_seen was the time of sending when the send of
\* the last event returned.
LastSendTouched ==
    visit.out # None => visit.out[1].stored = visit.out[1].at

\* The step reloads the page of a tab that holds a session record, within 30
\* minutes of the last event the script sent.
ReloadSoonAfterSend ==
    /\ RotateStep
    /\ visit.hrl_session # None
    /\ visit.out # None
    /\ nowMs - visit.out[1].at <= MAX_SESSION_GAP_MS

\* C27: every event the script sends leaves the stored session record with
\* last_seen equal to the time of sending, and a reload within 30 minutes of
\* the last sent event keeps the stored session.
C27_EverySendTouches ==
    /\ []LastSendTouched
    /\ [][ ReloadSoonAfterSend => Kept ]_vars

\* The events sent when the page is hidden or unloaded.
ExitEvents == { "exit_ping" } \cup UnloadEvents

\* C28: an exit-type event is given to sendBeacon first; the fetch is issued
\* when sendBeacon is missing or refused the event, and is not issued when
\* sendBeacon accepted it.
C28_BeaconThenFallback ==
    (visit.out # None /\ visit.out[1].event \in ExitEvents) =>
       /\ visit.out[1].beacon # "none"
       /\ visit.out[1].beacon = "accepted" => visit.out[1].fetch = "none"
       /\ visit.out[1].beacon \in { "unavailable", "refused" } => visit.out[1].fetch # "none"

\* The step is the rejection of the last event's fetch.
FetchFails ==
    /\ visit.out # None
    /\ visit.out[1].fetch = "pending"
    /\ visit'.out # None
    /\ visit'.out[1].fetch = "failed"

\* C29: the script never holds an event for a later send, never issues a
\* second request for an event, and never passes a failure on to the page;
\* the step in which a request fails changes nothing but the state of that
\* request.
C29_FailedEventIsLost ==
    /\ [](/\ visit.kept = 0
          /\ ~visit.surfaced
          /\ visit.out # None => visit.out[1].tries <= 1)
    /\ [][ FetchFails =>
              visit' = [visit EXCEPT !.out = Some([visit.out[1] EXCEPT !.fetch = "failed"])] ]_vars

\* The request of a purchase event failed and time has gone on.
C29_Witness ==
    /\ visit.out # None
    /\ visit.out[1].event = "purchase"
    /\ visit.out[1].fetch = "failed"
    /\ nowMs > visit.out[1].at

\* C32: the body of every event the script sends has an event_id, and the
\* beacon and the fetch of one exit ping carry the same one.
C32_EveryEventHasId ==
    visit.out # None =>
       /\ visit.out[1].event_id # NULL
       /\ visit.out[1].beacon \in { "accepted", "refused" } =>
             visit.out[1].beacon_id = visit.out[1].event_id

====
